---- MODULE Spec2Model ----
(***************************************************************************)
(* Hyphen resolution decision engine and its evaluation harness.           *)
(*                                                                         *)
(* A word is a sequence of one-character strings.  A confidence is an      *)
(* integer number of hundredths (0.57 is 57, the integer 1 is 100).  A     *)
(* Python dict is a sequence of records [k, v] in insertion order, because *)
(* the callers sort it with a stable sort and take the first item.         *)
(*                                                                         *)
(* Four specifications:                                                    *)
(*   Spec          the two dictionary strategies resolving one token       *)
(*                 against one lexicon, followed by the caller's choice of *)
(*                 the top candidate;                                      *)
(*   SpecScore     calculate_confidence_score on a two-word lexicon;       *)
(*   SpecLMDecide  the language-model decision rule of the prediction and  *)
(*                 of the evaluation script on one pair of probabilities;  *)
(*   SpecLM        the counters of language_model_evaluate.run over the    *)
(*                 words of an evaluation pass.                            *)
(***************************************************************************)
EXTENDS Integers, Sequences, FiniteSets, TLC

VARIABLES words, custom_hyph_word, result_base, result_suppl,
          output_base, output_suppl, confidences, lm, eb, pass, crf,
          boundaries, rf

vars == <<words, custom_hyph_word, result_base, result_suppl,
          output_base, output_suppl, confidences, lm, eb, pass, crf,
          boundaries, rf>>

----------------------------------------------------------------------------
(* Bounds of the model.                                                    *)

\* longest token, placeholder included
MaxLen == 4
\* most lexicon entries that matter to one token
MaxEntries == 2
\* largest frequency of the scorer's two-word lexicon
MaxFreq == 40
\* most words compared in one evaluation pass of the language model
MaxWords == 3
\* longest prefix or suffix given to the feature extractor
MaxSide == 4
\* most calls of evaluate_words on one EvaluateBaseline object
MaxCalls == 3
\* most lines of the dataset file of a pass
MaxLines == 2

----------------------------------------------------------------------------
(* Characters and strings.                                                 *)

\* the hyphenation placeholder ('$' in the doctests, U+0387 by default)
hyphen_symbol == "$"
\* the glyph that stands for a digit in the lexicon (U+03A7)
digit_symbol == "X"
\* the characters of a token besides the placeholder: a lowercase letter,
\* an uppercase letter, a digit and the literal hyphen
TokenChars == {"a", "B", "1", "-"}
\* a word of the lexicon that no form of any token equals
OtherWord == <<"z">>

\* str.lower() on one character
LowerChar(c) == IF c = "B" THEN "b" ELSE c

\* str.lower()
Lower(w) == [i \in DOMAIN w |-> LowerChar(w[i])]

\* [0-9]
IsDigit(c) == c = "1"

\* re.search(r'[0-9]', w) is not None
HasDigit(w) == \E i \in DOMAIN w : IsDigit(w[i])

\* re.search(r'-', w)
HasHyphen(w) == \E i \in DOMAIN w : w[i] = "-"

\* number of occurrences of character c in w
Count(w, c) == Cardinality({i \in DOMAIN w : w[i] = c})

RECURSIVE Replace(_, _, _)
\* str.replace(c, by): every occurrence of the character c becomes the
\* string by
Replace(w, c, by) ==
    IF w = <<>> THEN <<>>
    ELSE (IF Head(w) = c THEN by ELSE <<Head(w)>>) \o Replace(Tail(w), c, by)

\* re.sub(r'[0-9]', digit_symbol, w)
SubDigits(w) == [i \in DOMAIN w |-> IF IsDigit(w[i]) THEN digit_symbol ELSE w[i]]

\* str.find(c): 0-based index of the first occurrence, -1 if none
Find(w, c) ==
    IF \E i \in DOMAIN w : w[i] = c
    THEN (CHOOSE i \in DOMAIN w : w[i] = c /\ \A j \in 1..(i-1) : w[j] # c) - 1
    ELSE -1

\* str.rfind(c): 0-based index of the last occurrence, -1 if none
RFind(w, c) ==
    IF \E i \in DOMAIN w : w[i] = c
    THEN (CHOOSE i \in DOMAIN w : w[i] = c /\ \A j \in (i+1)..Len(w) : w[j] # c) - 1
    ELSE -1

\* w[from:] with a 0-based index
SliceFrom(w, from) == SubSeq(w, from + 1, Len(w))

\* w[:to] with a 0-based index
SliceTo(w, to) == SubSeq(w, 1, to)

----------------------------------------------------------------------------
(* Dicts in insertion order.                                               *)

EmptyDict == <<>>

Keys(d) == {d[i].k : i \in DOMAIN d}

\* d[key] = value: a new key is appended, an existing key keeps its place
DictSet(d, key, value) ==
    IF key \in Keys(d)
    THEN [i \in DOMAIN d |-> IF d[i].k = key THEN [k |-> key, v |-> value] ELSE d[i]]
    ELSE Append(d, [k |-> key, v |-> value])

\* d[key]
DictGet(d, key) == d[CHOOSE i \in DOMAIN d : d[i].k = key].v

\* dict.fromkeys([key], value)
FromKeys(key, value) == <<[k |-> key, v |-> value]>>

\* a returned value, or the exception that ended the call
Returned(d) == [raised |-> "none", items |-> d]
Raised(e) == [raised |-> e, items |-> <<>>]
NoCall == [raised |-> "nocall", items |-> <<>>]

----------------------------------------------------------------------------
(* Float arithmetic of the scorer: round(n / t, 2) in hundredths.          *)

RECURSIVE DivDir(_, _, _, _)
\* The sign of double(n/t) - n/t for 0 < n < t, by binary long division:
\* r is the remainder, sig the number of significant bits produced so far,
\* last the last bit produced.  The 54th significant bit and the remainder
\* after it decide the direction of the round-to-nearest-even division.
DivDir(r, den, sig, last) ==
    IF r = 0 THEN 0
    ELSE LET b == IF 2 * r >= den THEN 1 ELSE 0
             r2 == 2 * r - b * den
         IN  IF sig = 53
             THEN IF b = 0 THEN -1
                  ELSE IF r2 > 0 THEN 1
                  ELSE IF last = 1 THEN 1 ELSE -1
             ELSE IF sig = 0 /\ b = 0 THEN DivDir(r2, den, 0, 0)
             ELSE DivDir(r2, den, sig + 1, b)

\* The sign of double(n/t) - n/t for 0 <= n <= t, t > 0
FloatDivDir(n, t) == IF n % t = 0 THEN 0 ELSE DivDir(n, t, 0, 0)

\* PyRound2 with the hundredths cut off instead of rounded
PyRound2_Truncating(n, t) == (100 * n) \div t

\* round(n / t, 2) for 0 <= n <= t, t > 0: the float quotient is rounded to
\* the nearest hundredth; when n/t lies exactly between two hundredths the
\* float quotient decides (it is above, below, or, when it is exact, the
\* tie goes to the even hundredth)
PyRound2(n, t) ==
    LET q == (100 * n) \div t
        r == (100 * n) % t
    IN  IF 2 * r < t THEN q
        ELSE IF 2 * r > t THEN q + 1
        ELSE LET dir == FloatDivDir(n, t)
             IN  IF dir > 0 THEN q + 1
                 ELSE IF dir < 0 THEN q
                 ELSE IF q % 2 = 0 THEN q ELSE q + 1

----------------------------------------------------------------------------
(* MergeHyphensBaseline (scripts/run/merge_hyphens_baseline.py).           *)

RECURSIVE LoadWords(_, _)
\* the loop 'for line in wlf' of __init__ (the same in both classes) on
\* the lines 'word TAB frequency' of the word list, from the dict w on:
\* self.words[word] = int(frequency), a later line replacing an earlier one
LoadWords(lines, w) ==
    IF lines = <<>> THEN w
    ELSE LET line == Head(lines)
         IN  LoadWords(Tail(lines),
                       [k \in DOMAIN w \cup {line.word} |->
                            IF k = line.word THEN line.frequency ELSE w[k]])

\* MHB_calculate_confidence_score with the two confidences stored under each
\* other's key
MHB_calculate_confidence_score_Swapped(w, hyphenated_word, merged_word) ==
    LET merged_freqency == w[merged_word]
        hyphenated_frequency ==
            IF hyphenated_word \in DOMAIN w THEN w[hyphenated_word] ELSE 0
        total == merged_freqency + hyphenated_frequency
    IN  IF total = 0 THEN Raised("ZeroDivisionError")
        ELSE Returned(DictSet(
                 DictSet(EmptyDict, merged_word, PyRound2(hyphenated_frequency, total)),
                 hyphenated_word, PyRound2(merged_freqency, total)))

\* calculate_confidence_score(hyphenated_word, merged_word) on lexicon w
MHB_calculate_confidence_score(w, hyphenated_word, merged_word) ==
    LET merged_freqency == w[merged_word]
        hyphenated_frequency ==
            IF hyphenated_word \in DOMAIN w THEN w[hyphenated_word] ELSE 0
        total == merged_freqency + hyphenated_frequency
    IN  IF total = 0 THEN Raised("ZeroDivisionError")
        ELSE Returned(DictSet(
                 DictSet(EmptyDict, merged_word, PyRound2(merged_freqency, total)),
                 hyphenated_word, PyRound2(hyphenated_frequency, total)))

\* MHB_merge_and_lookup returning the merged word when only the hyphenated
\* word is found
MHB_merge_and_lookup_AlwaysMerged(w, tok) ==
    LET merged_word == Replace(Lower(tok), hyphen_symbol, <<>>)
        hyphenated_word == Replace(Lower(tok), hyphen_symbol, <<"-">>)
    IN  IF merged_word \in DOMAIN w
        THEN IF hyphenated_word \in DOMAIN w
             THEN MHB_calculate_confidence_score(w, hyphenated_word, merged_word)
             ELSE Returned(FromKeys(merged_word, 100))
        ELSE IF hyphenated_word \in DOMAIN w
             THEN Returned(FromKeys(merged_word, 100))
             ELSE Returned(FromKeys(merged_word, 0))

\* merge_and_lookup(custom_hyph_word) on lexicon w
MHB_merge_and_lookup(w, tok) ==
    LET merged_word == Replace(Lower(tok), hyphen_symbol, <<>>)
        hyphenated_word == Replace(Lower(tok), hyphen_symbol, <<"-">>)
    IN  IF merged_word \in DOMAIN w
        THEN IF hyphenated_word \in DOMAIN w
             THEN MHB_calculate_confidence_score(w, hyphenated_word, merged_word)
             ELSE Returned(FromKeys(merged_word, 100))
        ELSE IF hyphenated_word \in DOMAIN w
             THEN Returned(FromKeys(hyphenated_word, 100))
             ELSE Returned(FromKeys(merged_word, 0))

----------------------------------------------------------------------------
(* BaselineWithSupplements                                                 *)
(* (scripts/evaluate/merge_hyphens_baseline_with_supplements.py).          *)

\* BWS_calculate_confidence_score that stores the hyphenated word first
BWS_calculate_confidence_score_HyphenatedFirst(w, hyphenated_word, merged_word) ==
    LET merged_freqency == w[merged_word]
        hyphenated_frequency ==
            IF hyphenated_word \in DOMAIN w THEN w[hyphenated_word] ELSE 0
        total == merged_freqency + hyphenated_frequency
    IN  IF total = 0 THEN Raised("ZeroDivisionError")
        ELSE Returned(DictSet(
                 DictSet(EmptyDict, hyphenated_word, PyRound2(hyphenated_frequency, total)),
                 merged_word, PyRound2(merged_freqency, total)))

\* calculate_confidence_score(hyphenated_word, merged_word) on lexicon w
BWS_calculate_confidence_score(w, hyphenated_word, merged_word) ==
    LET merged_freqency == w[merged_word]
        hyphenated_frequency ==
            IF hyphenated_word \in DOMAIN w THEN w[hyphenated_word] ELSE 0
        total == merged_freqency + hyphenated_frequency
    IN  IF total = 0 THEN Raised("ZeroDivisionError")
        ELSE Returned(DictSet(
                 DictSet(EmptyDict, merged_word, PyRound2(merged_freqency, total)),
                 hyphenated_word, PyRound2(hyphenated_frequency, total)))

\* TranslateBack that returns the scorer's mapping as it is
TranslateBack_Untranslated(conf, result, hyphenated_word, merged_word) == conf

RECURSIVE TranslateBack(_, _, _, _)
\* the loop 'for c in confidences' of both special cases: a key with a
\* literal hyphen is filed under hyphenated_word, any other under
\* merged_word
TranslateBack(conf, result, hyphenated_word, merged_word) ==
    IF conf = <<>> THEN result
    ELSE LET c == Head(conf)
         IN  TranslateBack(Tail(conf),
                 IF HasHyphen(c.k)
                 THEN DictSet(result, hyphenated_word, c.v)
                 ELSE DictSet(result, merged_word, c.v),
                 hyphenated_word, merged_word)

\* left part of custom_hyph_word.lower().split(hyphen_symbol), one placeholder
SplitLeft(tok) == SliceTo(Lower(tok), Find(Lower(tok), hyphen_symbol))

\* right part of custom_hyph_word.lower().split(hyphen_symbol), one placeholder
SplitRight(tok) == SliceFrom(Lower(tok), Find(Lower(tok), hyphen_symbol) + 1)

\* subword_prefix: the left part after its last literal hyphen
SubwordPrefix(tok) == SliceFrom(SplitLeft(tok), RFind(SplitLeft(tok), "-") + 1)

\* subword_suffix: the right part up to right_hyphen_index
SubwordSuffix(tok) ==
    LET right == SplitRight(tok)
        right_hyphen_index ==
            IF Find(right, "-") > 0 THEN Find(right, "-") ELSE Len(right)
    IN  SliceTo(right, right_hyphen_index)

\* BWS_subword_case whose unknown token comes back as the hyphenated word
BWS_subword_case_UnknownHyphenated(w, tok, hyphenated_word, merged_word) ==
    IF HasHyphen(tok)
    THEN IF Count(Lower(tok), hyphen_symbol) # 1
         THEN Raised("ValueError")
         ELSE LET subword_prefix == SubwordPrefix(tok)
                  subword_suffix == SubwordSuffix(tok)
                  sub_merged == subword_prefix \o subword_suffix
                  sub_hyphenated == subword_prefix \o <<"-">> \o subword_suffix
              IN  IF sub_merged \in DOMAIN w
                  THEN IF sub_hyphenated \in DOMAIN w
                       THEN LET conf == BWS_calculate_confidence_score(
                                            w, sub_merged, sub_hyphenated)
                            IN  IF conf.raised # "none" THEN conf
                                ELSE Returned(TranslateBack(conf.items, EmptyDict,
                                                  hyphenated_word, merged_word))
                       ELSE Returned(FromKeys(merged_word, 100))
                  ELSE IF sub_hyphenated \in DOMAIN w
                       THEN Returned(FromKeys(hyphenated_word, 100))
                       ELSE Returned(FromKeys(hyphenated_word, 0))
    ELSE Returned(FromKeys(hyphenated_word, 0))

\* the second special case and the final return of merge_and_lookup
BWS_subword_case(w, tok, hyphenated_word, merged_word) ==
    IF HasHyphen(tok)
    THEN IF Count(Lower(tok), hyphen_symbol) # 1
         THEN Raised("ValueError")
         ELSE LET subword_prefix == SubwordPrefix(tok)
                  subword_suffix == SubwordSuffix(tok)
                  sub_merged == subword_prefix \o subword_suffix
                  sub_hyphenated == subword_prefix \o <<"-">> \o subword_suffix
              IN  IF sub_merged \in DOMAIN w
                  THEN IF sub_hyphenated \in DOMAIN w
                       THEN LET conf == BWS_calculate_confidence_score(
                                            w, sub_merged, sub_hyphenated)
                            IN  IF conf.raised # "none" THEN conf
                                ELSE Returned(TranslateBack(conf.items, EmptyDict,
                                                  hyphenated_word, merged_word))
                       ELSE Returned(FromKeys(merged_word, 100))
                  ELSE IF sub_hyphenated \in DOMAIN w
                       THEN Returned(FromKeys(hyphenated_word, 100))
                       ELSE Returned(FromKeys(merged_word, 0))
    ELSE Returned(FromKeys(merged_word, 0))

\* BWS_merge_and_lookup that tries the subword of a word with a literal
\* hyphen before the whole word
BWS_merge_and_lookup_SubwordFirst(w, tok) ==
    LET merged_word == Replace(Lower(tok), hyphen_symbol, <<>>)
        hyphenated_word == Replace(Lower(tok), hyphen_symbol, <<"-">>)
        no_digit_merged_word == SubDigits(merged_word)
        no_digit_hyphenated_word == SubDigits(hyphenated_word)
        sub == BWS_subword_case(w, tok, hyphenated_word, merged_word)
    IN  IF HasHyphen(tok) /\ sub.raised = "none" /\ sub.items[1].v > 0
        THEN sub
        ELSE IF ~HasDigit(tok)
        THEN \* normal case
             IF merged_word \in DOMAIN w
             THEN IF hyphenated_word \in DOMAIN w
                  THEN BWS_calculate_confidence_score(w, hyphenated_word, merged_word)
                  ELSE Returned(FromKeys(merged_word, 100))
             ELSE IF hyphenated_word \in DOMAIN w
                  THEN Returned(FromKeys(hyphenated_word, 100))
                  ELSE BWS_subword_case(w, tok, hyphenated_word, merged_word)
        ELSE \* first special case
             IF no_digit_merged_word \in DOMAIN w
             THEN IF no_digit_hyphenated_word \in DOMAIN w
                  THEN LET conf == BWS_calculate_confidence_score(
                                       w, no_digit_hyphenated_word,
                                       no_digit_merged_word)
                       IN  IF conf.raised # "none" THEN conf
                           ELSE Returned(TranslateBack(conf.items, EmptyDict,
                                             hyphenated_word, merged_word))
                  ELSE Returned(FromKeys(merged_word, 100))
             ELSE IF no_digit_hyphenated_word \in DOMAIN w
                  THEN Returned(FromKeys(hyphenated_word, 100))
                  ELSE BWS_subword_case(w, tok, hyphenated_word, merged_word)

\* merge_and_lookup(custom_hyph_word) on lexicon w
BWS_merge_and_lookup(w, tok) ==
    LET merged_word == Replace(Lower(tok), hyphen_symbol, <<>>)
        hyphenated_word == Replace(Lower(tok), hyphen_symbol, <<"-">>)
        no_digit_merged_word == SubDigits(merged_word)
        no_digit_hyphenated_word == SubDigits(hyphenated_word)
    IN  IF ~HasDigit(tok)
        THEN \* normal case
             IF merged_word \in DOMAIN w
             THEN IF hyphenated_word \in DOMAIN w
                  THEN BWS_calculate_confidence_score(w, hyphenated_word, merged_word)
                  ELSE Returned(FromKeys(merged_word, 100))
             ELSE IF hyphenated_word \in DOMAIN w
                  THEN Returned(FromKeys(hyphenated_word, 100))
                  ELSE BWS_subword_case(w, tok, hyphenated_word, merged_word)
        ELSE \* first special case
             IF no_digit_merged_word \in DOMAIN w
             THEN IF no_digit_hyphenated_word \in DOMAIN w
                  THEN LET conf == BWS_calculate_confidence_score(
                                       w, no_digit_hyphenated_word,
                                       no_digit_merged_word)
                       IN  IF conf.raised # "none" THEN conf
                           ELSE Returned(TranslateBack(conf.items, EmptyDict,
                                             hyphenated_word, merged_word))
                  ELSE Returned(FromKeys(merged_word, 100))
             ELSE IF no_digit_hyphenated_word \in DOMAIN w
                  THEN Returned(FromKeys(hyphenated_word, 100))
                  ELSE BWS_subword_case(w, tok, hyphenated_word, merged_word)

----------------------------------------------------------------------------
(* The callers' choice of the top candidate.                               *)

\* sorted(confidence.items(), key=lambda x: x[1], reverse=True)[0]: the
\* sort is stable, so among the items of highest confidence the first
\* inserted comes first
TopCandidate(d) ==
    d[CHOOSE i \in DOMAIN d :
          /\ \A j \in DOMAIN d : d[j].v <= d[i].v
          /\ \A j \in 1..(i-1) : d[j].v < d[i].v]

\* the output word of the caller for a result r
OutputOf(r) == IF r.raised = "none" THEN TopCandidate(r.items).k ELSE <<>>

----------------------------------------------------------------------------
(* Language-model strategy (scripts/evaluate/language_model_evaluate.py,   *)
(* scripts/run/language_model_predict.py).  Word probabilities are the     *)
(* two-decimal values round(.., 2) in hundredths.                          *)

\* EvalKeepHyphen with the threshold 0.01 in both branches
EvalKeepHyphen_OneThreshold(prob_word_v0, prob_word_v1) ==
    prob_word_v1 - prob_word_v0 > 1

\* prediction_keep_hyphen of language_model_evaluate.run
EvalKeepHyphen(prob_word_v0, prob_word_v1) ==
    IF prob_word_v1 > 50
    THEN prob_word_v1 - prob_word_v0 > 1
    ELSE prob_word_v1 - prob_word_v0 >= 10

\* prediction_keep_hyphen of language_model_predict.run
PredictKeepHyphen(prob_word_v0, prob_word_v1) ==
    IF prob_word_v1 > 50
    THEN prob_word_v1 - prob_word_v0 > 1
    ELSE prob_word_v1 - prob_word_v0 >= 10

\* the counters of language_model_evaluate.run before the first line
LMStart ==
    [num_predicted_v0_expected_v0 |-> 0, num_predicted_v0_expected_v1 |-> 0,
     num_predicted_v1_expected_v0 |-> 0, num_predicted_v1_expected_v1 |-> 0,
     num_predicted_v0_expected_v0_ambiguous |-> 0,
     num_predicted_v1_expected_v1_ambiguous |-> 0,
     num_predicted_v0_expected_v1_ambiguous |-> 0,
     num_predicted_v1_expected_v0_ambiguous |-> 0,
     num_error_category_1 |-> 0, num_error_category_2 |-> 0,
     num_error_category_3 |-> 0, num_error_category_4 |-> 0,
     prob_word_v0 |-> 0, prob_word_v1 |-> 0, expected_word |-> "none",
     keep_eval |-> "none", keep_predict |-> "none", compared |-> 0]

\* x += 1 on field f of record r
Bump(r, f) == [r EXCEPT ![f] = @ + 1]

\* 'if predicted_word == expected_word': the counters of a correct prediction
CountCorrect(c, keep) ==
    IF keep
    THEN Bump(Bump(c, "num_predicted_v1_expected_v1"),
              "num_predicted_v1_expected_v1_ambiguous")
    ELSE Bump(Bump(c, "num_predicted_v0_expected_v0"),
              "num_predicted_v0_expected_v0_ambiguous")

\* CountWrong without the ambiguous count of a wrongly kept hyphen below
\* the threshold
CountWrong_MissingElse(c, keep, p0, p1) ==
    IF keep
    THEN IF p0 >= 75 /\ p1 >= 75
         THEN Bump(Bump(c, "num_predicted_v1_expected_v0"),
                   "num_predicted_v0_expected_v0_ambiguous")
         ELSE Bump(c, "num_predicted_v1_expected_v0")
    ELSE IF p0 >= 75 /\ p1 >= 75
         THEN Bump(Bump(c, "num_predicted_v0_expected_v1"),
                   "num_predicted_v1_expected_v1_ambiguous")
         ELSE Bump(Bump(c, "num_predicted_v0_expected_v1"),
                   "num_predicted_v0_expected_v1_ambiguous")

\* CountWrong that files a wrong prediction under the correct ambiguous
\* cell only when both probabilities are above 0.75
CountWrong_StrictThreshold(c, keep, p0, p1) ==
    IF keep
    THEN IF p0 > 75 /\ p1 > 75
         THEN Bump(Bump(c, "num_predicted_v1_expected_v0"),
                   "num_predicted_v0_expected_v0_ambiguous")
         ELSE Bump(Bump(c, "num_predicted_v1_expected_v0"),
                   "num_predicted_v1_expected_v0_ambiguous")
    ELSE IF p0 > 75 /\ p1 > 75
         THEN Bump(Bump(c, "num_predicted_v0_expected_v1"),
                   "num_predicted_v1_expected_v1_ambiguous")
         ELSE Bump(Bump(c, "num_predicted_v0_expected_v1"),
                   "num_predicted_v0_expected_v1_ambiguous")

\* 'else': the confusion and ambiguous counters of a wrong prediction
CountWrong(c, keep, p0, p1) ==
    IF keep
    THEN IF p0 >= 75 /\ p1 >= 75
         THEN Bump(Bump(c, "num_predicted_v1_expected_v0"),
                   "num_predicted_v0_expected_v0_ambiguous")
         ELSE Bump(Bump(c, "num_predicted_v1_expected_v0"),
                   "num_predicted_v1_expected_v0_ambiguous")
    ELSE IF p0 >= 75 /\ p1 >= 75
         THEN Bump(Bump(c, "num_predicted_v0_expected_v1"),
                   "num_predicted_v1_expected_v1_ambiguous")
         ELSE Bump(Bump(c, "num_predicted_v0_expected_v1"),
                   "num_predicted_v0_expected_v1_ambiguous")

\* CountCategory whose second test reads prob_word_v0 <= 0.5
CountCategory_Overlapping(c, p0, p1) ==
    LET c1 == IF p0 >= 50 /\ p1 >= 50 THEN Bump(c, "num_error_category_1") ELSE c
        c2 == IF p0 <= 50 /\ p1 >= 50 THEN Bump(c1, "num_error_category_2") ELSE c1
        c3 == IF p0 >= 50 /\ p1 < 50 THEN Bump(c2, "num_error_category_3") ELSE c2
    IN  IF p0 < 50 /\ p1 < 50 THEN Bump(c3, "num_error_category_4") ELSE c3

\* the four 'if's on the error category of a wrong prediction
CountCategory(c, p0, p1) ==
    LET c1 == IF p0 >= 50 /\ p1 >= 50 THEN Bump(c, "num_error_category_1") ELSE c
        c2 == IF p0 < 50 /\ p1 >= 50 THEN Bump(c1, "num_error_category_2") ELSE c1
        c3 == IF p0 >= 50 /\ p1 < 50 THEN Bump(c2, "num_error_category_3") ELSE c2
    IN  IF p0 < 50 /\ p1 < 50 THEN Bump(c3, "num_error_category_4") ELSE c3

\* One pass of the loop 'for word_pos in positions_hyphenated_words' of
\* language_model_evaluate.run on counters c: p0, p1 are the two word
\* probabilities, exp tells whether expected_words[word_pos] is the v0
\* word, the v1 word or any other string.
EvalCompare(c, p0, p1, exp) ==
    LET keep == EvalKeepHyphen(p0, p1)
        correct == IF keep THEN exp = "v1" ELSE exp = "v0"
        counted == IF correct THEN CountCorrect(c, keep)
                   ELSE CountCategory(CountWrong(c, keep, p0, p1), p0, p1)
    IN  [counted EXCEPT !.prob_word_v0 = p0, !.prob_word_v1 = p1,
                        !.expected_word = exp,
                        !.keep_eval = IF keep THEN "keep" ELSE "merge",
                        !.compared = @ + 1]

----------------------------------------------------------------------------
(* Sequence-classifier features (scripts/run/crf_predict.py,               *)
(* scripts/evaluation/crf_evaluate.py).  A feature dict is a dict in       *)
(* insertion order; a bigram is a two-character word.                      *)

\* a Python slice index i on a string of length n, clamped as s[i:] does
PyIndex(n, i) ==
    IF i < 0 THEN (IF i + n < 0 THEN 0 ELSE i + n)
    ELSE (IF i > n THEN n ELSE i)

\* w[i:j]
PySlice(w, i, j) == SubSeq(w, PyIndex(Len(w), i) + 1, PyIndex(Len(w), j))

\* str.isupper(): some cased character and no lowercase character
IsUpper(w) == (\E i \in DOMAIN w : w[i] = "B") /\ ~(\E i \in DOMAIN w : w[i] = "a")

\* str.isdigit(): not empty and only digits
IsDigitString(w) == w # <<>> /\ \A i \in DOMAIN w : IsDigit(w[i])

RECURSIVE DictUpdate(_, _)
\* d.update(other)
DictUpdate(d, other) ==
    IF other = <<>> THEN d
    ELSE DictUpdate(DictSet(d, Head(other).k, Head(other).v), Tail(other))

RECURSIVE SplitWords(_, _, _)
\* str.split(): the maximal runs of characters other than whitespace; cur
\* is the run being read, acc the runs read so far
SplitWords(s, cur, acc) ==
    IF s = <<>> THEN (IF cur = <<>> THEN acc ELSE Append(acc, cur))
    ELSE IF Head(s) = " "
         THEN SplitWords(Tail(s), <<>>, IF cur = <<>> THEN acc ELSE Append(acc, cur))
         ELSE SplitWords(Tail(s), Append(cur, Head(s)), acc)

Split(s) == SplitWords(s, <<>>, <<>>)

\* 'x' * n
Xs(n) == [i \in 1..n |-> "x"]

\* the bigrams dict of standard_prefix_features
PrefixBigrams(prefix) ==
    LET b1 == DictSet(EmptyDict, "p:-1bigram", Lower(PySlice(prefix, -2, Len(prefix))))
        b2 == DictSet(b1, "p:-2bigram", Lower(PySlice(prefix, -3, -1)))
        b3 == DictSet(b2, "p:-3bigram", Lower(PySlice(prefix, -4, -2)))
    IN  IF Len(prefix) >= 2
        THEN IF Len(prefix) >= 3
             THEN IF Len(prefix) >= 4 THEN b3 ELSE b2
             ELSE b1
        ELSE EmptyDict

\* the bigrams dict of standard_suffix_features
SuffixBigrams(suffix) ==
    LET b1 == DictSet(EmptyDict, "s:+1bigram", Lower(PySlice(suffix, 0, 2)))
        b2 == DictSet(b1, "s:+2bigram", Lower(PySlice(suffix, 1, 3)))
        b3 == DictSet(b2, "s:+3bigram", Lower(PySlice(suffix, 2, 4)))
    IN  IF Len(suffix) >= 2
        THEN IF Len(suffix) >= 3
             THEN IF Len(suffix) >= 4 THEN b3 ELSE b2
             ELSE b1
        ELSE EmptyDict

\* CrfPredict_standard_prefix_features whose second bigram is prefix[-3:-2]
CrfPredict_standard_prefix_features_ShortBigram(prefix) ==
    LET bigrams == PrefixBigrams(prefix)
        short == IF "p:-2bigram" \in Keys(bigrams)
                 THEN DictSet(bigrams, "p:-2bigram", Lower(PySlice(prefix, -3, -2)))
                 ELSE bigrams
        features ==
            <<[k |-> "p:isuppercase", v |-> IsUpper(prefix)],
              [k |-> "p:isdigit", v |-> IsDigitString(prefix)],
              [k |-> "p:hashyphen", v |-> Find(prefix, "-") > -1],
              [k |-> "p:lower", v |-> Lower(prefix)]>>
    IN  DictUpdate(features, short)

\* CrfPredict.standard_prefix_features(prefix)
CrfPredict_standard_prefix_features(prefix) ==
    LET bigrams == PrefixBigrams(prefix)
        features ==
            <<[k |-> "p:isuppercase", v |-> IsUpper(prefix)],
              [k |-> "p:isdigit", v |-> IsDigitString(prefix)],
              [k |-> "p:hashyphen", v |-> Find(prefix, "-") > -1],
              [k |-> "p:lower", v |-> Lower(prefix)]>>
    IN  DictUpdate(features, bigrams)

\* CrfPredict.standard_suffix_features(suffix)
CrfPredict_standard_suffix_features(suffix) ==
    LET bigrams == SuffixBigrams(suffix)
        features ==
            <<[k |-> "s:isuppercase", v |-> IsUpper(suffix)],
              [k |-> "s:isdigit", v |-> IsDigitString(suffix)],
              [k |-> "s:hashyphen", v |-> Find(suffix, "-") > -1],
              [k |-> "s:lower", v |-> Lower(suffix)]>>
    IN  DictUpdate(features, bigrams)

\* standard_prefix_features(prefix) of crf_evaluate.py
crf_evaluate_standard_prefix_features(prefix) ==
    LET bigrams == PrefixBigrams(prefix)
        features ==
            <<[k |-> "p:isuppercase", v |-> IsUpper(prefix)],
              [k |-> "p:isdigit", v |-> IsDigitString(prefix)],
              [k |-> "p:hashyphen", v |-> Find(prefix, "-") > -1],
              [k |-> "p:lower", v |-> Lower(prefix)]>>
    IN  DictUpdate(features, bigrams)

\* standard_suffix_features(suffix) of crf_evaluate.py
crf_evaluate_standard_suffix_features(suffix) ==
    LET bigrams == SuffixBigrams(suffix)
        features ==
            <<[k |-> "s:isuppercase", v |-> IsUpper(suffix)],
              [k |-> "s:isdigit", v |-> IsDigitString(suffix)],
              [k |-> "s:hashyphen", v |-> Find(suffix, "-") > -1],
              [k |-> "s:lower", v |-> Lower(suffix)]>>
    IN  DictUpdate(features, bigrams)

\* CrfPredict.extract_features(tpl): the one feature dict of the returned
\* list, or the ValueError of unpacking tpl.split() into two names
CrfPredict_extract_features(tpl) ==
    LET parts == Split(tpl)
    IN  IF Len(parts) # 2 THEN Raised("ValueError")
        ELSE LET prefix == parts[1]
                 suffix == parts[2]
                 wordshape == Xs(Len(prefix)) \o <<"-">> \o Xs(Len(suffix))
                 all_features == FromKeys("word-shape", wordshape)
             IN  Returned(DictUpdate(
                     DictUpdate(all_features,
                                CrfPredict_standard_prefix_features(prefix)),
                     CrfPredict_standard_suffix_features(suffix)))

\* test_x_features of CrfPredict.predict_word(hyphenated_word)
CrfPredict_predict_word_features(hyphenated_word) ==
    CrfPredict_extract_features(Replace(hyphenated_word, hyphen_symbol, <<" ">>))

\* extract_features(tpl) of crf_evaluate.py; resume is what the debugger
\* of pdb.set_trace() is told when tpl has not two parts
crf_evaluate_extract_features(tpl, resume) ==
    LET parts == Split(tpl)
    IN  IF Len(parts) # 2
        THEN (IF resume = "quit" THEN Raised("BdbQuit") ELSE Raised("ValueError"))
        ELSE LET prefix == parts[1]
                 suffix == parts[2]
                 wordshape == Xs(Len(prefix)) \o <<"-">> \o Xs(Len(suffix))
                 all_features == FromKeys("word-shape", wordshape)
             IN  Returned(DictUpdate(
                     DictUpdate(all_features,
                                crf_evaluate_standard_prefix_features(prefix)),
                     crf_evaluate_standard_suffix_features(suffix)))

\* get_word_shape(prefix, suffix) of the training script:
\* re.sub(r'[^-]', 'x', prefix + '-' + suffix)
get_word_shape(prefix, suffix) ==
    [i \in 1..(Len(prefix) + 1 + Len(suffix)) |->
        IF (prefix \o <<"-">> \o suffix)[i] = "-" THEN "-" ELSE "x"]

\* standard_prefix_features(prefix) of the training script
crf_train_standard_prefix_features(prefix) ==
    LET bigrams == PrefixBigrams(prefix)
        features ==
            <<[k |-> "p:isuppercase", v |-> IsUpper(prefix)],
              [k |-> "p:isdigit", v |-> IsDigitString(prefix)],
              [k |-> "p:hashyphen", v |-> Find(prefix, "-") > -1],
              [k |-> "p:lower", v |-> Lower(prefix)]>>
    IN  DictUpdate(features, bigrams)

\* standard_suffix_features(suffix) of the training script
crf_train_standard_suffix_features(suffix) ==
    LET bigrams == SuffixBigrams(suffix)
        features ==
            <<[k |-> "s:isuppercase", v |-> IsUpper(suffix)],
              [k |-> "s:isdigit", v |-> IsDigitString(suffix)],
              [k |-> "s:hashyphen", v |-> Find(suffix, "-") > -1],
              [k |-> "s:lower", v |-> Lower(suffix)]>>
    IN  DictUpdate(features, bigrams)

\* extract_features(tpl) of the training script
crf_train_extract_features(tpl, resume) ==
    LET parts == Split(tpl)
    IN  IF Len(parts) # 2
        THEN (IF resume = "quit" THEN Raised("BdbQuit") ELSE Raised("ValueError"))
        ELSE LET prefix == parts[1]
                 suffix == parts[2]
                 all_features == FromKeys("word-shape",
                                          get_word_shape(prefix, suffix))
             IN  Returned(DictUpdate(
                     DictUpdate(all_features,
                                crf_train_standard_prefix_features(prefix)),
                     crf_train_standard_suffix_features(suffix)))

\* no feature extractor has been called
CrfIdle == [input |-> <<>>, suffix |-> <<>>, called |-> "none", features |-> NoCall]

----------------------------------------------------------------------------
(* EvaluateBaseline                                                        *)
(* (scripts/evaluation/evaluate_baselines_on_file_confusion_matrix.py).    *)
(* A case table is a dict in insertion order from the raw word to its      *)
(* record of frequency and confidence.                                     *)

\* no call of evaluate_words yet
NoWords == [input |-> <<>>, output |-> <<>>, exp_outputput |-> <<>>,
            confidence |-> 0]

\* EvaluateBaseline.__init__; calls and last are the history of the calls
\* of evaluate_words: their number and the arguments of the last one
EBStart ==
    [tp |-> EmptyDict, tp_counter |-> 0, tn |-> EmptyDict, tn_counter |-> 0,
     fn |-> EmptyDict, fn_counter |-> 0, fp |-> EmptyDict, fp_counter |-> 0,
     calls |-> 0, last |-> NoWords]

\* the counter of a case table
CounterOf(case) == case \o "_counter"

\* FileUnder that stores the confidence of the latest occurrence
FileUnder_LatestConfidence(e, case, input, confidence) ==
    LET table == e[case]
        entry == IF input \notin Keys(table)
                 THEN [frequency |-> 1, confidence |-> confidence]
                 ELSE [frequency |-> DictGet(table, input).frequency + 1,
                       confidence |-> confidence]
    IN  [e EXCEPT ![CounterOf(case)] = @ + 1,
                  ![case] = DictSet(table, input, entry)]

\* one of the four branches of evaluate_words: the counter of the case
\* grows by one and the word is added to the table of the case, or its
\* frequency grows by one
FileUnder(e, case, input, confidence) ==
    LET table == e[case]
        entry == IF input \notin Keys(table)
                 THEN [frequency |-> 1, confidence |-> confidence]
                 ELSE [DictGet(table, input) EXCEPT !.frequency = @ + 1]
    IN  [e EXCEPT ![CounterOf(case)] = @ + 1,
                  ![case] = DictSet(table, input, entry)]

\* EvaluateBaseline.evaluate_words(input, output, exp_outputput, confidence)
evaluate_words(e, input, output, exp_outputput, confidence) ==
    LET case ==
            IF exp_outputput = output
            THEN IF exp_outputput = Replace(input, hyphen_symbol, <<"-">>)
                 THEN "tp" ELSE "tn"
            ELSE IF exp_outputput = Replace(input, hyphen_symbol, <<"-">>)
                 THEN "fn" ELSE "fp"
        filed == FileUnder(e, case, input, confidence)
    IN  [filed EXCEPT !.calls = @ + 1,
                      !.last = [input |-> input, output |-> output,
                                exp_outputput |-> exp_outputput,
                                confidence |-> confidence]]

----------------------------------------------------------------------------
(* A dataset pass: EvaluateBaseline.evaluate_baseline_on_file and          *)
(* language_model_evaluate.run over the lines of a dataset file.  A line   *)
(* is the sequence of its TAB-separated parts, a part the sequence of its  *)
(* whitespace-separated words.                                             *)

\* the characters of PUNCTUATION_SYMBOLS among those of the dataset words
PUNCTUATION_SYMBOLS == {".", "-"}

\* the loops 'for word in ..split()' of run: the words with a character
\* that is no punctuation symbol
KeepWords(sentence) ==
    SelectSeq(sentence, LAMBDA word : \E i \in DOMAIN word :
                                          word[i] \notin PUNCTUATION_SYMBOLS)

RECURSIVE StripLeft(_)
\* line.lstrip() seen on the parts: leading parts without a word go with
\* the whitespace before the first word
StripLeft(parts) ==
    IF Len(parts) > 1 /\ Head(parts) = <<>>
    THEN StripLeft(Tail(parts)) ELSE parts

RECURSIVE StripRight(_)
\* line.rstrip() seen on the parts
StripRight(parts) ==
    IF Len(parts) > 1 /\ parts[Len(parts)] = <<>>
    THEN StripRight(SubSeq(parts, 1, Len(parts) - 1)) ELSE parts

\* line.strip().split("\t")
StripSplit(parts) == StripRight(StripLeft(parts))

\* any([c == HYPHENATION_SYMBOL for c in word])
HasPlaceholder(word) == \E i \in DOMAIN word : word[i] = hyphen_symbol

RECURSIVE PositionsFrom_PerPlaceholder(_, _)
\* PositionsFrom that lists a word once for each of its placeholders
PositionsFrom_PerPlaceholder(input_words, i) ==
    IF i > Len(input_words) THEN <<>>
    ELSE [k \in 1..Count(input_words[i], hyphen_symbol) |-> i]
         \o PositionsFrom_PerPlaceholder(input_words, i + 1)

RECURSIVE PositionsFrom(_, _)
\* positions_hyphenated_words, counted from 1, from position i on
PositionsFrom(input_words, i) ==
    IF i > Len(input_words) THEN <<>>
    ELSE IF HasPlaceholder(input_words[i])
         THEN <<i>> \o PositionsFrom(input_words, i + 1)
         ELSE PositionsFrom(input_words, i + 1)

\* what a request of run can end in: a 200 response with a JSON body, a
\* response with another status code, an empty body, the user's interrupt,
\* a builtin ConnectionError, the ConnectionError of the requests library
\* (a RequestException, no builtin ConnectionError), any other exception
RequestOutcomes ==
    {"ok", "non200", "empty", "KeyboardInterrupt", "ConnectionError",
     "requests.ConnectionError", "Exception"}

\* the try statement around the v0 request: "ok" goes on with the line,
\* "continue" leaves the line, "exit" is sys.exit(1); json.loads raises on
\* an empty body, which 'except Exception' catches
RequestV0(outcome) ==
    IF outcome = "ok" THEN "ok"
    ELSE IF outcome = "non200" THEN "continue"
    ELSE IF outcome = "KeyboardInterrupt" THEN "exit"
    ELSE IF outcome = "ConnectionError" THEN "exit"
    ELSE "continue"

\* RequestV1 that goes on with the line after a response of another status
RequestV1_NoContinue(outcome) ==
    IF outcome = "ok" THEN "ok"
    ELSE IF outcome = "non200" THEN "ok"
    ELSE IF outcome = "KeyboardInterrupt" THEN "exit"
    ELSE "continue"

\* the try statement around the v1 request: it has no 'except
\* ConnectionError'
RequestV1(outcome) ==
    IF outcome = "ok" THEN "ok"
    ELSE IF outcome = "non200" THEN "continue"
    ELSE IF outcome = "KeyboardInterrupt" THEN "exit"
    ELSE "continue"

\* the intermediate report is printed after every 100th line
ReportEvery == 100

\* a division of the report of run raises ZeroDivisionError
ReportRaises(c) ==
    \/ c.num_predicted_v0_expected_v0 + c.num_predicted_v0_expected_v1
       + c.num_predicted_v1_expected_v0 + c.num_predicted_v1_expected_v1 = 0
    \/ c.num_predicted_v0_expected_v0_ambiguous
       + c.num_predicted_v0_expected_v1_ambiguous
       + c.num_predicted_v1_expected_v0_ambiguous
       + c.num_predicted_v1_expected_v1_ambiguous = 0
    \/ c.num_predicted_v0_expected_v0 + c.num_predicted_v1_expected_v0 = 0
    \/ c.num_predicted_v0_expected_v0_ambiguous
       + c.num_predicted_v1_expected_v0_ambiguous = 0
    \/ c.num_predicted_v0_expected_v1 + c.num_predicted_v1_expected_v1 = 0
    \/ c.num_predicted_v0_expected_v1_ambiguous
       + c.num_predicted_v1_expected_v1_ambiguous = 0

\* a division of evaluate_accuracy of the dictionary harness raises
\* ZeroDivisionError: the overall accuracy divides by the sum of the four
\* cells, the accuracy of 'expected non-hyphen' by num_d_d + num_k_d and
\* the accuracy of 'expected hyphen' by num_d_k + num_k_k
AccuracyRaises(e) ==
    LET num_d_d == e.tn_counter
        num_d_k == e.fn_counter
        num_k_d == e.fp_counter
        num_k_k == e.tp_counter
    IN  \/ num_d_d + num_d_k + num_k_d + num_k_k = 0
        \/ num_d_d + num_k_d = 0
        \/ num_d_k + num_k_k = 0

\* re.search(r'[\S]+(?:%s[\S]+)+' % hyphen_symbol, word) of the callers of
\* merge_and_lookup, on a word without whitespace: some placeholder has a
\* character before it and a character after it
IsHyphenated(word) ==
    \E i \in 2..(Len(word) - 1) : word[i] = hyphen_symbol

\* self.mhb.merge_and_lookup(input) of the loaded baseline version
MergeAndLookup(version, w, input) ==
    IF version = "basic" THEN MHB_merge_and_lookup(w, input)
    ELSE BWS_merge_and_lookup(w, input)

RECURSIVE EvaluateTokens(_, _, _, _, _, _)
\* the loop 'for i, h in enumerate(hyphenated)' of
\* evaluate_baseline_on_file from token i on: the EvaluateBaseline object
\* after it and "running", or the exception that ended the pass
EvaluateTokens(e, version, w, hyphenated, original, i) ==
    IF i > Len(hyphenated) THEN [eb |-> e, status |-> "running"]
    ELSE LET input == Lower(hyphenated[i])
         IN  IF ~IsHyphenated(input)
             THEN EvaluateTokens(e, version, w, hyphenated, original, i + 1)
             ELSE LET baseline_confidence == MergeAndLookup(version, w, input)
                  IN  IF baseline_confidence.raised # "none"
                      THEN [eb |-> e, status |-> baseline_confidence.raised]
                      ELSE IF i > Len(original)
                      THEN [eb |-> e, status |-> "IndexError"]
                      ELSE LET top == TopCandidate(baseline_confidence.items)
                           IN  EvaluateTokens(
                                   evaluate_words(e, input, top.k,
                                                  Lower(original[i]), top.v),
                                   version, w, hyphenated, original, i + 1)

\* the body of the loop 'for line in hf' of evaluate_baseline_on_file on
\* the parts of line.split("\t"); resume is what the debugger of
\* pdb.set_trace() is told, "continue" or "quit"
EvaluateLine(e, version, w, parts, resume) ==
    IF Len(parts) < 2 THEN [eb |-> e, status |-> "IndexError"]
    ELSE LET hyphenated == parts[1]
             original == parts[2]
         IN  IF Len(hyphenated) # Len(original) /\ resume = "quit"
             THEN [eb |-> e, status |-> "BdbQuit"]
             ELSE EvaluateTokens(e, version, w, hyphenated, original, 1)

\* the variables of the loop body of a pass outside a line: the kept words
\* of the two sentences, the positions left to compare, the two words last
\* compared, the number of words compared on the line, and whether the
\* line had another number of TABs than one or sentences of different
\* lengths
NoLine ==
    [input_words |-> <<>>, expected_words |-> <<>>,
     positions_hyphenated_words |-> <<>>,
     predicted_word |-> <<>>, expected_word |-> <<>>,
     compared |-> 0, malformed |-> FALSE]

\* no request made yet
NoRequest == [version |-> "none", outcome |-> "none"]

\* a pass of a harness over a dataset file before its first line:
\* line_num counts the lines left behind, pc is the place in the loop body
\* of run ("read", "v0", "v1", "compare"), status is "running", "done" or
\* what ended the pass, request is the last request and its outcome;
\* placeholders and hyphenated count the placeholders and the tokens to
\* compare of the lines that were neither skipped nor the end of the pass
PassStart(harness) ==
    [harness |-> harness, status |-> "running", pc |-> "read",
     line_num |-> 0, line |-> NoLine, request |-> NoRequest,
     placeholders |-> 0, hyphenated |-> 0]

\* no pass
PassIdle == [PassStart("none") EXCEPT !.status = "idle"]

----------------------------------------------------------------------------
(* The sentence of a language model run: the two variants of its words,    *)
(* the word boundaries in both, and the characters that the probability    *)
(* of a hyphenated word reads.  Word positions are counted from 1, the     *)
(* character offsets of a boundary from 0 as in the scripts.               *)

\* the lists and indices of run before the loop over input_words
NoBoundaries ==
    [input_words_v0 |-> <<>>, input_words_v1 |-> <<>>,
     word_boundaries_v0 |-> <<>>, word_boundaries_v1 |-> <<>>,
     index_v0 |-> 0, index_v1 |-> 0, positions_hyphenated_words |-> <<>>]

\* the loop body with indices that leave out the whitespace between words
BoundaryStep_NoWhitespace(script, b, word_pos, word) ==
    LET hyph == HasPlaceholder(word)
        v0 == IF hyph THEN Replace(word, hyphen_symbol, <<>>) ELSE word
        v1 == IF hyph THEN Replace(word, hyphen_symbol, <<"-">>) ELSE word
        appended == script = "evaluate" \/ ~hyph
    IN  [input_words_v0 |-> Append(b.input_words_v0, v0),
         input_words_v1 |-> Append(b.input_words_v1, v1),
         word_boundaries_v0 |->
             IF appended
             THEN Append(b.word_boundaries_v0,
                         <<b.index_v0, b.index_v0 + Len(v0)>>)
             ELSE b.word_boundaries_v0,
         word_boundaries_v1 |->
             IF appended
             THEN Append(b.word_boundaries_v1,
                         <<b.index_v1, b.index_v1 + Len(v1)>>)
             ELSE b.word_boundaries_v1,
         index_v0 |-> IF appended THEN b.index_v0 + Len(v0)
                      ELSE b.index_v0,
         index_v1 |-> IF appended THEN b.index_v1 + Len(v1)
                      ELSE b.index_v1,
         positions_hyphenated_words |->
             IF hyph THEN Append(b.positions_hyphenated_words, word_pos)
             ELSE b.positions_hyphenated_words]

\* one turn of 'for word_pos, word in enumerate(input_words)' of run.  In
\* language_model_evaluate.py the two boundaries are appended and the two
\* indices advanced for every word; in language_model_predict.py these
\* statements are indented into the else branch and run for the words
\* without a hyphenation symbol only.
BoundaryStep(script, b, word_pos, word) ==
    LET hyph == HasPlaceholder(word)
        v0 == IF hyph THEN Replace(word, hyphen_symbol, <<>>) ELSE word
        v1 == IF hyph THEN Replace(word, hyphen_symbol, <<"-">>) ELSE word
        appended == script = "evaluate" \/ ~hyph
    IN  [input_words_v0 |-> Append(b.input_words_v0, v0),
         input_words_v1 |-> Append(b.input_words_v1, v1),
         word_boundaries_v0 |->
             IF appended
             THEN Append(b.word_boundaries_v0,
                         <<b.index_v0, b.index_v0 + Len(v0)>>)
             ELSE b.word_boundaries_v0,
         word_boundaries_v1 |->
             IF appended
             THEN Append(b.word_boundaries_v1,
                         <<b.index_v1, b.index_v1 + Len(v1)>>)
             ELSE b.word_boundaries_v1,
         index_v0 |-> IF appended THEN b.index_v0 + Len(v0) + 1
                      ELSE b.index_v0,
         index_v1 |-> IF appended THEN b.index_v1 + Len(v1) + 1
                      ELSE b.index_v1,
         positions_hyphenated_words |->
             IF hyph THEN Append(b.positions_hyphenated_words, word_pos)
             ELSE b.positions_hyphenated_words]

RECURSIVE WordBoundaries(_, _, _, _)
\* the loop 'for word_pos, word in enumerate(input_words)' from word i on
WordBoundaries(script, input_words, i, b) ==
    IF i > Len(input_words) THEN b
    ELSE WordBoundaries(script, input_words, i + 1,
                        BoundaryStep(script, b, i, input_words[i]))

RECURSIVE Join(_)
\* " ".join(input_words_v0) and " ".join(input_words_v1)
Join(ws) ==
    IF ws = <<>> THEN <<>>
    ELSE IF Len(ws) = 1 THEN ws[1]
    ELSE ws[1] \o <<" ">> \o Join(Tail(ws))

\* no word probability was computed
NoProbability == [raised |-> "no call", read |-> <<>>, divisor |-> 0]

\* the probability of the word at word_pos in one variant, from the lookup
\* of its boundaries to the division: read holds, for every turn of
\* 'for i_word, i_sentence in enumerate(range(word_start, word_end))', the
\* position of the response and the character of the word whose
\* probability is added; divisor is len(input_word).  The response holds an
\* entry for every character position of the sentence that was sent.
WordProbability(word_boundaries, input_words_v, word_pos) ==
    IF word_pos > Len(word_boundaries)
    THEN [raised |-> "IndexError", read |-> <<>>, divisor |-> 0]
    ELSE LET word_start == word_boundaries[word_pos][1]
             word_end == word_boundaries[word_pos][2]
             input_word == input_words_v[word_pos]
             turns == word_end - word_start
             done == IF turns <= Len(input_word) THEN turns
                     ELSE Len(input_word)
             read == [i \in 1..done |->
                          [i_sentence |-> word_start + i - 1,
                           char |-> input_word[i]]]
         IN  IF turns > Len(input_word)
             THEN [raised |-> "IndexError", read |-> read, divisor |-> 0]
             ELSE IF Len(input_word) = 0
             THEN [raised |-> "ZeroDivisionError", read |-> read,
                   divisor |-> 0]
             ELSE [raised |-> "none", read |-> read,
                   divisor |-> Len(input_word)]

\* the sentence of a run that has not begun its loops: pc is "words" before
\* the loop over input_words and "probabilities" in the loop over
\* positions_hyphenated_words, todo are the positions this loop has not
\* reached, word_pos is its last position, prob_word_v0 and prob_word_v1
\* are what was read for the word there
SentenceStart(script, input_words) ==
    [script |-> script, status |-> "running", pc |-> "words",
     input_words |-> input_words, at |-> NoBoundaries, todo |-> <<>>,
     word_pos |-> 0, prob_word_v0 |-> NoProbability,
     prob_word_v1 |-> NoProbability]

\* no sentence
BoundariesIdle == [status |-> "idle"]

----------------------------------------------------------------------------
(* ProcessFile.run (scripts/run/process_file.py): a model is run on the    *)
(* lines of a hyphenated file and a result file is written.  A line is the *)
(* sequence of its TAB-separated parts, a part the sequence of its words.  *)

\* "%s" % None
NoneWord == <<"N", "o", "n", "e">>

\* the labels of a model of CrfPredict
CrfLabels == {"0", "1"}

\* output and output_sentence of run before the loop over the words of a
\* line; sentence is output_sentence, none when it is None
NoOutput == [output |-> <<>>, none |-> TRUE, sentence |-> <<>>,
             raised |-> "none"]

RECURSIVE RunWords(_, _, _, _, _, _)
\* 'for i, word in enumerate(hyphenated)' of run from word i on; labels
\* holds what predict_word returns for each word
RunWords(model_type, w, hyphenated, labels, i, o) ==
    IF i > Len(hyphenated) \/ o.raised # "none" THEN o
    ELSE LET word == hyphenated[i]
             confidence ==
                 MergeAndLookup(IF model_type = "base" THEN "basic"
                                ELSE "supplemented", w, Lower(word))
             output ==
                 IF model_type \in {"base", "base2"}
                 THEN (IF confidence.raised = "none" /\ confidence.items # <<>>
                       THEN Append(o.output, TopCandidate(confidence.items).k)
                       ELSE o.output)
                 ELSE IF model_type = "logreg"
                 THEN (IF labels[i] = "1"
                       THEN Append(o.output,
                                   Replace(word, hyphen_symbol, <<"-">>))
                       ELSE IF labels[i] = "0"
                       THEN Append(o.output,
                                   Replace(word, hyphen_symbol, <<>>))
                       ELSE o.output)
                 ELSE o.output
             raised ==
                 IF model_type \in {"base", "base2"}
                 THEN (IF confidence.raised # "none" THEN confidence.raised
                       ELSE IF confidence.items = <<>> THEN "IndexError"
                       ELSE "none")
                 ELSE "none"
         IN  IF ~IsHyphenated(word)
             THEN RunWords(model_type, w, hyphenated, labels, i + 1,
                           [o EXCEPT !.output = Append(@, word)])
             ELSE IF Len(SelectSeq(word, LAMBDA ch : ch = hyphen_symbol)) > 1
             THEN RunWords(model_type, w, hyphenated, labels, i + 1, o)
             ELSE IF raised # "none"
             THEN [o EXCEPT !.raised = raised]
             ELSE RunWords(model_type, w, hyphenated, labels, i + 1,
                           [output |-> output, none |-> FALSE,
                            sentence |-> output, raised |-> "none"])

RECURSIVE PredictProbabilities(_, _)
\* what the loop 'for word_pos in positions_hyphenated_words' of
\* language_model_predict.run raises from the positions todo on
PredictProbabilities(b, todo) ==
    IF todo = <<>> THEN "none"
    ELSE LET v0 == WordProbability(b.word_boundaries_v0, b.input_words_v0,
                                   Head(todo))
             v1 == WordProbability(b.word_boundaries_v1, b.input_words_v1,
                                   Head(todo))
         IN  IF v0.raised # "none" THEN v0.raised
             ELSE IF v1.raised # "none" THEN v1.raised
             ELSE PredictProbabilities(b, Tail(todo))

RECURSIVE Flatten(_)
\* the words of line.strip().split(): the words of all the parts of a line
Flatten(parts) ==
    IF parts = <<>> THEN <<>> ELSE Head(parts) \o Flatten(Tail(parts))

\* what languagemodel.run(line.strip()) raises, both requests answered
LanguageModelRaises(parts) ==
    LET b == WordBoundaries("predict", KeepWords(Flatten(parts)), 1,
                            NoBoundaries)
    IN  PredictProbabilities(b, b.positions_hyphenated_words)

\* a run of ProcessFile before the first line of hyphenated_file: status is
\* "running", "done" or what ended the run, written are the lines of the
\* result file, each with its two TAB-separated sentences
RunStart(model_type, file) ==
    [model_type |-> model_type, status |-> "running", file |-> file,
     line_counter |-> 0, written |-> <<>>]

\* no run
RfIdle == [status |-> "idle"]

----------------------------------------------------------------------------
(* Inputs.                                                                 *)

\* the frequencies of the lexicon entries a token is resolved against
FreqValues == {1, 2}

\* the frequencies of the scorer's lexicon, the doctest's 570 and 430 included
ScoreFreqs == (0..MaxFreq) \cup {430, 570}

\* the word probabilities of an evaluation pass, in hundredths
ProbGrid == {30, 40, 50, 75, 80}

\* every two-decimal probability, in hundredths
Probs == 0..100

\* the tokens with exactly one placeholder that the callers pass to
\* merge_and_lookup
Tokens ==
    UNION {{t \in [1..n -> TokenChars \cup {hyphen_symbol}] :
                Count(t, hyphen_symbol) = 1 /\ IsHyphenated(t)} : n \in 3..MaxLen}

\* merged_word and hyphenated_word of a token
MergedForm(tok) == Replace(Lower(tok), hyphen_symbol, <<>>)
HyphenatedForm(tok) == Replace(Lower(tok), hyphen_symbol, <<"-">>)

\* the hyphen-delimited segment of the token that holds the placeholder:
\* what lies between the last literal hyphen before the placeholder and the
\* first literal hyphen after it
SegmentLeft(tok) == SliceFrom(SplitLeft(tok), RFind(SplitLeft(tok), "-") + 1)
SegmentRight(tok) ==
    IF HasHyphen(SplitRight(tok))
    THEN SliceTo(SplitRight(tok), Find(SplitRight(tok), "-"))
    ELSE SplitRight(tok)

\* every key either strategy can look up in self.words for a token, the two
\* forms of the segment that holds the placeholder, and one word besides:
\* no other entry of a lexicon is read when the token is resolved.  The
\* empty word is no key: __init__ cannot read it from a line of the file.
LexKeys(tok) ==
    {MergedForm(tok), HyphenatedForm(tok),
     SubDigits(MergedForm(tok)), SubDigits(HyphenatedForm(tok)),
     SubwordPrefix(tok) \o SubwordSuffix(tok),
     SubwordPrefix(tok) \o <<"-">> \o SubwordSuffix(tok),
     SegmentLeft(tok) \o SegmentRight(tok),
     SegmentLeft(tok) \o <<"-">> \o SegmentRight(tok),
     OtherWord} \ {<<>>}

\* the lexicons of at most MaxEntries entries over the keys ks, as
\* __init__ builds them (one frequency per word)
Lexicons(ks) ==
    UNION {[S -> FreqValues] : S \in {T \in SUBSET ks : Cardinality(T) <= MaxEntries}}

\* the token and the two words of the scorer's doctest, shortened
ScoreToken == <<"e", "$", "m">>
ScoreMerged == <<"e", "m">>
ScoreHyphenated == <<"e", "-", "m">>

NoConfidences == [base |-> NoCall, suppl |-> NoCall]

----------------------------------------------------------------------------
(* Spec: resolving one token.                                              *)

Init ==
    /\ custom_hyph_word \in Tokens
    /\ words \in Lexicons(LexKeys(custom_hyph_word))
    /\ result_base = NoCall
    /\ result_suppl = NoCall
    /\ output_base = <<>>
    /\ output_suppl = <<>>
    /\ confidences = NoConfidences
    /\ lm = LMStart
    /\ eb = EBStart
    /\ pass = PassIdle
    /\ crf = CrfIdle
    /\ boundaries = BoundariesIdle
    /\ rf = RfIdle

\* MergeHyphensBaseline.merge_and_lookup and the caller's sorted(..)[0][0]
BaseResolve ==
    /\ result_base = NoCall
    /\ result_base' = MHB_merge_and_lookup(words, custom_hyph_word)
    /\ output_base' = OutputOf(result_base')
    /\ UNCHANGED <<words, custom_hyph_word, result_suppl, output_suppl,
                   confidences, lm, eb, pass, crf,
                   boundaries, rf>>

\* BaselineWithSupplements.merge_and_lookup and the caller's sorted(..)[0][0]
SupplResolve ==
    /\ result_suppl = NoCall
    /\ result_suppl' = BWS_merge_and_lookup(words, custom_hyph_word)
    /\ output_suppl' = OutputOf(result_suppl')
    /\ UNCHANGED <<words, custom_hyph_word, result_base, output_base,
                   confidences, lm, eb, pass, crf,
                   boundaries, rf>>

Next == BaseResolve \/ SupplResolve

Spec == Init /\ [][Next]_vars

----------------------------------------------------------------------------
(* SpecScore: the scorer called on its own, as in its doctest.             *)

InitScore ==
    /\ custom_hyph_word = ScoreToken
    /\ \E fm \in ScoreFreqs :
          \/ words = (ScoreMerged :> fm)
          \/ \E fh \in ScoreFreqs :
                words = (ScoreMerged :> fm) @@ (ScoreHyphenated :> fh)
    /\ result_base = NoCall
    /\ result_suppl = NoCall
    /\ output_base = <<>>
    /\ output_suppl = <<>>
    /\ confidences = NoConfidences
    /\ lm = LMStart
    /\ eb = EBStart
    /\ pass = PassIdle
    /\ crf = CrfIdle
    /\ boundaries = BoundariesIdle
    /\ rf = RfIdle

\* MergeHyphensBaseline.calculate_confidence_score(hyphenated, merged)
BaseScore ==
    /\ confidences.base = NoCall
    /\ confidences' = [confidences EXCEPT !.base =
           MHB_calculate_confidence_score(words, ScoreHyphenated, ScoreMerged)]
    /\ UNCHANGED <<words, custom_hyph_word, result_base, result_suppl,
                   output_base, output_suppl, lm, eb, pass, crf,
                   boundaries, rf>>

\* BaselineWithSupplements.calculate_confidence_score(hyphenated, merged)
SupplScore ==
    /\ confidences.suppl = NoCall
    /\ confidences' = [confidences EXCEPT !.suppl =
           BWS_calculate_confidence_score(words, ScoreHyphenated, ScoreMerged)]
    /\ UNCHANGED <<words, custom_hyph_word, result_base, result_suppl,
                   output_base, output_suppl, lm, eb, pass, crf,
                   boundaries, rf>>

NextScore == BaseScore \/ SupplScore

SpecScore == InitScore /\ [][NextScore]_vars

----------------------------------------------------------------------------
(* SpecLMDecide: the decision rule on one pair of word probabilities.      *)

InitLMDecide ==
    /\ custom_hyph_word = ScoreToken
    /\ words = <<>>
    /\ result_base = NoCall
    /\ result_suppl = NoCall
    /\ output_base = <<>>
    /\ output_suppl = <<>>
    /\ confidences = NoConfidences
    /\ \E p0 \in Probs, p1 \in Probs :
          lm = [LMStart EXCEPT !.prob_word_v0 = p0, !.prob_word_v1 = p1]
    /\ eb = EBStart
    /\ pass = PassIdle
    /\ crf = CrfIdle
    /\ boundaries = BoundariesIdle
    /\ rf = RfIdle

\* the decision of language_model_evaluate.run for the word
EvalDecide ==
    /\ lm.keep_eval = "none"
    /\ lm' = [lm EXCEPT !.keep_eval =
                 IF EvalKeepHyphen(lm.prob_word_v0, lm.prob_word_v1)
                 THEN "keep" ELSE "merge"]
    /\ UNCHANGED <<words, custom_hyph_word, result_base, result_suppl,
                   output_base, output_suppl, confidences, eb, pass, crf,
                   boundaries, rf>>

\* the decision of language_model_predict.run for the word
PredictDecide ==
    /\ lm.keep_predict = "none"
    /\ lm' = [lm EXCEPT !.keep_predict =
                 IF PredictKeepHyphen(lm.prob_word_v0, lm.prob_word_v1)
                 THEN "keep" ELSE "merge"]
    /\ UNCHANGED <<words, custom_hyph_word, result_base, result_suppl,
                   output_base, output_suppl, confidences, eb, pass, crf,
                   boundaries, rf>>

NextLMDecide == EvalDecide \/ PredictDecide

SpecLMDecide == InitLMDecide /\ [][NextLMDecide]_vars

----------------------------------------------------------------------------
(* SpecLM: the counters of an evaluation pass.                             *)

InitLM ==
    /\ custom_hyph_word = ScoreToken
    /\ words = <<>>
    /\ result_base = NoCall
    /\ result_suppl = NoCall
    /\ output_base = <<>>
    /\ output_suppl = <<>>
    /\ confidences = NoConfidences
    /\ lm = LMStart
    /\ eb = EBStart
    /\ pass = PassIdle
    /\ crf = CrfIdle
    /\ boundaries = BoundariesIdle
    /\ rf = RfIdle

\* one hyphenated word of a sentence is compared with its expected word
EvalWord ==
    /\ lm.compared < MaxWords
    /\ \E p0 \in ProbGrid, p1 \in ProbGrid, exp \in {"v0", "v1", "other"} :
          lm' = EvalCompare(lm, p0, p1, exp)
    /\ UNCHANGED <<words, custom_hyph_word, result_base, result_suppl,
                   output_base, output_suppl, confidences, eb, pass, crf,
                   boundaries, rf>>

NextLM == EvalWord

SpecLM == InitLM /\ [][NextLM]_vars

----------------------------------------------------------------------------
(* SpecCrf: the feature extractor on one prefix or suffix.                 *)

\* the prefixes and suffixes given to the extractor
Sides == UNION {[1..n -> TokenChars] : n \in 0..MaxSide}

\* the suffixes of the words given to predict_word
ShortSides == UNION {[1..n -> TokenChars] : n \in 1..2}

InitCrf ==
    /\ custom_hyph_word = ScoreToken
    /\ words = <<>>
    /\ result_base = NoCall
    /\ result_suppl = NoCall
    /\ output_base = <<>>
    /\ output_suppl = <<>>
    /\ confidences = NoConfidences
    /\ lm = LMStart
    /\ eb = EBStart
    /\ pass = PassIdle
    /\ \E side \in Sides : crf = [CrfIdle EXCEPT !.input = side]
    /\ boundaries = BoundariesIdle
    /\ rf = RfIdle

\* one call of a feature extractor on crf.input, result features
CrfCall(name, features) ==
    /\ crf.called = "none"
    /\ crf' = [crf EXCEPT !.called = name, !.features = features]
    /\ UNCHANGED <<words, custom_hyph_word, result_base, result_suppl,
                   output_base, output_suppl, confidences, lm, eb, pass,
                   boundaries, rf>>

\* CrfPredict.standard_prefix_features(crf.input)
PredictPrefixFeatures ==
    CrfCall("predict_prefix",
            Returned(CrfPredict_standard_prefix_features(crf.input)))

\* CrfPredict.standard_suffix_features(crf.input)
PredictSuffixFeatures ==
    CrfCall("predict_suffix",
            Returned(CrfPredict_standard_suffix_features(crf.input)))

\* standard_prefix_features(crf.input) of crf_evaluate.py
EvaluatePrefixFeatures ==
    CrfCall("evaluate_prefix",
            Returned(crf_evaluate_standard_prefix_features(crf.input)))

\* standard_suffix_features(crf.input) of crf_evaluate.py
EvaluateSuffixFeatures ==
    CrfCall("evaluate_suffix",
            Returned(crf_evaluate_standard_suffix_features(crf.input)))

\* the features CrfPredict.predict_word builds for the word made of the
\* prefix crf.input, the placeholder and a suffix
PredictWordFeatures ==
    /\ crf.called = "none"
    /\ crf.input # <<>>
    /\ \E suffix \in ShortSides :
          crf' = [crf EXCEPT
                     !.called = "predict_word",
                     !.suffix = suffix,
                     !.features = CrfPredict_predict_word_features(
                                      crf.input \o <<hyphen_symbol>> \o suffix)]
    /\ UNCHANGED <<words, custom_hyph_word, result_base, result_suppl,
                   output_base, output_suppl, confidences, lm, eb, pass,
                   boundaries, rf>>

NextCrf ==
    \/ PredictPrefixFeatures
    \/ PredictSuffixFeatures
    \/ EvaluatePrefixFeatures
    \/ EvaluateSuffixFeatures
    \/ PredictWordFeatures

SpecCrf == InitCrf /\ [][NextCrf]_vars

----------------------------------------------------------------------------
(* SpecWords: calls of evaluate_words on one EvaluateBaseline object.      *)

\* the raw words of the calls, lowercased as the harness passes them: one
\* placeholder, two placeholders
RawWords == {<<"e", "$", "m">>, <<"a", "$", "a", "$", "a">>}

\* the outputs of a strategy for a raw word
OutputsOf(input) == {MergedForm(input), HyphenatedForm(input)}

\* the expected words of the dataset for a raw word: its merged form, its
\* hyphenated form, and words that are neither
ExpectedOf(input) ==
    {MergedForm(input), HyphenatedForm(input), OtherWord,
     <<"a", "-", "a", "a">>}

\* the confidences of the top candidate, in hundredths
TopConfidences == {0, 51, 100}

InitWords ==
    /\ custom_hyph_word = ScoreToken
    /\ words = <<>>
    /\ result_base = NoCall
    /\ result_suppl = NoCall
    /\ output_base = <<>>
    /\ output_suppl = <<>>
    /\ confidences = NoConfidences
    /\ lm = LMStart
    /\ eb = EBStart
    /\ pass = PassIdle
    /\ crf = CrfIdle
    /\ boundaries = BoundariesIdle
    /\ rf = RfIdle

\* eb.evaluate_words(input, output, exp_outputput, confidence)
EvaluateWords ==
    /\ eb.calls < MaxCalls
    /\ \E input \in RawWords :
          \E output \in OutputsOf(input), exp_outputput \in ExpectedOf(input),
             confidence \in TopConfidences :
             eb' = evaluate_words(eb, input, output, exp_outputput, confidence)
    /\ UNCHANGED <<words, custom_hyph_word, result_base, result_suppl,
                   output_base, output_suppl, confidences, lm, pass, crf,
                   boundaries, rf>>

NextWords == EvaluateWords

SpecWords == InitWords /\ [][NextWords]_vars

----------------------------------------------------------------------------
(* Specification SpecPass: one harness, the dictionary harness with one    *)
(* of the two resolvers or the language-model harness, passes over the     *)
(* lines of a dataset file.                                                *)

Harnesses == {"basic", "supplemented", "language_model"}

\* the hyphenated sentences of the dataset: a token with an upper-case
\* letter, a token with two placeholders, a token after a plain word, a
\* token before a punctuation word
PassSentences ==
    {<<  <<"B", "$", "a">>  >>,
     <<  <<"a", "$", "a", "$", "a">>  >>,
     <<  <<"a", "a">>, <<"B", "$", "a">>  >>,
     <<  <<"B", "$", "a">>, <<".">>  >>}

\* the words a dataset pairs with a word: the word itself, and for a
\* token its merged and its hyphenated form, as written and in lower case
ExpectedWords(word) ==
    IF HasPlaceholder(word)
    THEN {Replace(word, hyphen_symbol, <<>>),
          Replace(word, hyphen_symbol, <<"-">>),
          Lower(Replace(word, hyphen_symbol, <<>>)),
          Lower(Replace(word, hyphen_symbol, <<"-">>))}
    ELSE {word}

RECURSIVE ExpectedSentences(_)
\* the sentences that pair each word of a sentence with one of its words
ExpectedSentences(s) ==
    IF s = <<>> THEN {<<>>}
    ELSE {<<w>> \o rest : w \in ExpectedWords(Head(s)),
                          rest \in ExpectedSentences(Tail(s))}

\* the lines of the dataset: a sentence and an expected sentence with a
\* word for each of its words, with the last word missing or with one word
\* more; a sentence alone; three parts; a line that begins with a TAB
PassLines ==
    UNION {{<<s>>}
           \cup {<<s, e>> : e \in ExpectedSentences(s)}
           \cup {<<s, SubSeq(e, 1, Len(e) - 1)>> : e \in ExpectedSentences(s)}
           \cup {<<s, e \o << <<"a", "a">> >> >> : e \in ExpectedSentences(s)}
           \cup {<<s, e, e>> : e \in ExpectedSentences(s)}
           \cup {<< <<>>, s, e>> : e \in ExpectedSentences(s)}
           : s \in PassSentences}

\* the lexicons of the dictionary harness
PassLexicons ==
    {<<>>,
     (<<"b", "a">> :> 1) @@ (<<"a", "-", "a", "-", "a">> :> 1)}

\* the probabilities of the two variants of a word, in hundredths
PassProbs == {<<40, 80>>, <<80, 40>>}

\* a line with another number of TABs than one, or with sentences of
\* different numbers of tokens
Malformed(parts) ==
    Len(parts) # 2 \/ Len(parts[1]) # Len(parts[2])

\* the tokens of a sentence that a harness compares: the words with a
\* placeholder in run, the words matching the regular expression in
\* evaluate_baseline_on_file
TokensOf(harness, sentence) ==
    SelectSeq(sentence,
              LAMBDA t : IF harness = "language_model" THEN HasPlaceholder(t)
                         ELSE IsHyphenated(Lower(t)))

RECURSIVE PlaceholdersIn(_)
\* the placeholders of a sequence of tokens
PlaceholdersIn(tokens) ==
    IF tokens = <<>> THEN 0
    ELSE Count(Head(tokens), hyphen_symbol) + PlaceholdersIn(Tail(tokens))

InitPass ==
    /\ \E harness \in Harnesses :
        /\ pass = PassStart(harness)
        /\ words \in (IF harness = "language_model" THEN {<<>>} ELSE PassLexicons)
    /\ custom_hyph_word = <<>>
    /\ result_base = NoCall /\ result_suppl = NoCall
    /\ output_base = <<>> /\ output_suppl = <<>>
    /\ confidences = NoConfidences
    /\ lm = LMStart
    /\ eb = EBStart
    /\ crf = CrfIdle
    /\ boundaries = BoundariesIdle
    /\ rf = RfIdle

\* one turn of the loop 'for line in hf' of evaluate_baseline_on_file
EBEvaluateLine ==
    /\ pass.harness \in {"basic", "supplemented"}
    /\ pass.status = "running"
    /\ pass.line_num < MaxLines
    /\ \E parts \in PassLines, resume \in {"continue", "quit"} :
        LET r == EvaluateLine(eb, pass.harness, words, parts, resume)
            ok == r.status = "running"
        IN  /\ eb' = r.eb
            /\ pass' = [pass EXCEPT
                          !.status = r.status,
                          !.line_num = IF ok THEN @ + 1 ELSE @,
                          !.line = [NoLine EXCEPT
                                      !.compared = r.eb.calls - eb.calls,
                                      !.malformed = Malformed(parts)],
                          !.placeholders =
                              IF ok THEN @ + PlaceholdersIn(
                                                 TokensOf(pass.harness, parts[1]))
                              ELSE @,
                          !.hyphenated =
                              IF ok THEN @ + Len(TokensOf(pass.harness, parts[1]))
                              ELSE @]
    /\ UNCHANGED <<words, custom_hyph_word, result_base, result_suppl,
                   output_base, output_suppl, confidences, lm, crf,
                   boundaries, rf>>

\* the end of the file in evaluate_baseline_on_file, and the accuracy report
\* of evaluate_accuracy that the script writes after it
EBFinish ==
    /\ pass.harness \in {"basic", "supplemented"}
    /\ pass.status = "running"
    /\ pass' = [pass EXCEPT !.status = IF AccuracyRaises(eb)
                                       THEN "ZeroDivisionError" ELSE "done"]
    /\ UNCHANGED <<words, custom_hyph_word, result_base, result_suppl,
                   output_base, output_suppl, confidences, lm, eb, crf,
                   boundaries, rf>>

\* run from 'for line_num, line in enumerate(bf)' up to the v0 request
LMReadLine ==
    /\ pass.harness = "language_model"
    /\ pass.status = "running"
    /\ pass.pc = "read"
    /\ pass.line_num < MaxLines
    /\ \E parts \in PassLines :
        LET sp == StripSplit(parts)
        IN  IF Len(sp) # 2
            THEN pass' = [pass EXCEPT
                            !.status = "ValueError",
                            !.line = [NoLine EXCEPT
                                        !.malformed = Malformed(parts)]]
            ELSE LET input_words == KeepWords(sp[1])
                 IN  pass' = [pass EXCEPT
                                !.pc = "v0",
                                !.line = [NoLine EXCEPT
                                    !.input_words = input_words,
                                    !.expected_words = KeepWords(sp[2]),
                                    !.positions_hyphenated_words =
                                        PositionsFrom(input_words, 1),
                                    !.malformed = Malformed(parts)]]
    /\ UNCHANGED <<words, custom_hyph_word, result_base, result_suppl,
                   output_base, output_suppl, confidences, lm, eb, crf,
                   boundaries, rf>>

\* what a request leaves of the pass: "ok" goes on at pc next, "continue"
\* goes to the next line, "exit" ends the process
AfterRequest(p, version, outcome, todo, next) ==
    LET q == [p EXCEPT !.request = [version |-> version, outcome |-> outcome]]
    IN  IF todo = "ok" THEN [q EXCEPT !.pc = next]
        ELSE IF todo = "continue"
        THEN [q EXCEPT !.pc = "read", !.line_num = @ + 1, !.line = NoLine]
        ELSE [q EXCEPT !.status = "exit"]

\* the try statement of the v0 request
LMRequestV0 ==
    /\ pass.status = "running"
    /\ pass.pc = "v0"
    /\ \E outcome \in RequestOutcomes :
        pass' = AfterRequest(pass, "v0", outcome, RequestV0(outcome), "v1")
    /\ UNCHANGED <<words, custom_hyph_word, result_base, result_suppl,
                   output_base, output_suppl, confidences, lm, eb, crf,
                   boundaries, rf>>

\* the try statement of the v1 request
LMRequestV1 ==
    /\ pass.status = "running"
    /\ pass.pc = "v1"
    /\ \E outcome \in RequestOutcomes :
        LET q == AfterRequest(pass, "v1", outcome, RequestV1(outcome), "compare")
            tokens == TokensOf(pass.harness, pass.line.input_words)
        IN  pass' = IF RequestV1(outcome) = "ok"
                    THEN [q EXCEPT !.placeholders = @ + PlaceholdersIn(tokens),
                                   !.hyphenated = @ + Len(tokens)]
                    ELSE q
    /\ UNCHANGED <<words, custom_hyph_word, result_base, result_suppl,
                   output_base, output_suppl, confidences, lm, eb, crf,
                   boundaries, rf>>

\* one turn of the loop 'for word_pos in positions_hyphenated_words'
LMCompareWord ==
    /\ pass.status = "running"
    /\ pass.pc = "compare"
    /\ pass.line.positions_hyphenated_words # <<>>
    /\ \E p \in PassProbs :
        LET word_pos == Head(pass.line.positions_hyphenated_words)
            word == pass.line.input_words[word_pos]
            input_word_v0 == Replace(word, hyphen_symbol, <<>>)
            input_word_v1 == Replace(word, hyphen_symbol, <<"-">>)
            predicted_word == IF EvalKeepHyphen(p[1], p[2])
                              THEN input_word_v1 ELSE input_word_v0
        IN  IF word_pos > Len(pass.line.expected_words)
            THEN /\ pass' = [pass EXCEPT !.status = "IndexError"]
                 /\ lm' = lm
            ELSE LET expected_word == pass.line.expected_words[word_pos]
                 IN  /\ lm' = EvalCompare(lm, p[1], p[2],
                                          IF expected_word = input_word_v0
                                          THEN "v0"
                                          ELSE IF expected_word = input_word_v1
                                          THEN "v1" ELSE "other")
                     /\ pass' = [pass EXCEPT
                                   !.line.positions_hyphenated_words = Tail(@),
                                   !.line.predicted_word = predicted_word,
                                   !.line.expected_word = expected_word,
                                   !.line.compared = @ + 1]
    /\ UNCHANGED <<words, custom_hyph_word, result_base, result_suppl,
                   output_base, output_suppl, confidences, eb, crf,
                   boundaries, rf>>

\* the end of the loop body of run: the report after every 100th line
LMEndLine ==
    /\ pass.status = "running"
    /\ pass.pc = "compare"
    /\ pass.line.positions_hyphenated_words = <<>>
    /\ pass' = IF (pass.line_num + 1) % ReportEvery = 0 /\ ReportRaises(lm)
               THEN [pass EXCEPT !.status = "ZeroDivisionError"]
               ELSE [pass EXCEPT !.pc = "read", !.line_num = @ + 1,
                                 !.line = NoLine]
    /\ UNCHANGED <<words, custom_hyph_word, result_base, result_suppl,
                   output_base, output_suppl, confidences, lm, eb, crf,
                   boundaries, rf>>

\* the end of the file in run: the final report
LMFinish ==
    /\ pass.harness = "language_model"
    /\ pass.status = "running"
    /\ pass.pc = "read"
    /\ pass' = [pass EXCEPT !.status = IF ReportRaises(lm)
                                       THEN "ZeroDivisionError" ELSE "done"]
    /\ UNCHANGED <<words, custom_hyph_word, result_base, result_suppl,
                   output_base, output_suppl, confidences, lm, eb, crf,
                   boundaries, rf>>

NextPass ==
    \/ EBEvaluateLine \/ EBFinish
    \/ LMReadLine \/ LMRequestV0 \/ LMRequestV1
    \/ LMCompareWord \/ LMEndLine \/ LMFinish

SpecPass == InitPass /\ [][NextPass]_vars

----------------------------------------------------------------------------
(* SpecCases: resolving one token against a lexicon that holds nothing but *)
(* forms of the token, the forms that the cases of the two strategies look *)
(* up and the forms of the segment with the placeholder.                   *)

InitCases ==
    /\ custom_hyph_word \in Tokens
    /\ words \in Lexicons(LexKeys(custom_hyph_word) \ {OtherWord})
    /\ result_base = NoCall
    /\ result_suppl = NoCall
    /\ output_base = <<>>
    /\ output_suppl = <<>>
    /\ confidences = NoConfidences
    /\ lm = LMStart
    /\ eb = EBStart
    /\ pass = PassIdle
    /\ crf = CrfIdle
    /\ boundaries = BoundariesIdle
    /\ rf = RfIdle

SpecCases == InitCases /\ [][Next]_vars

----------------------------------------------------------------------------
(* SpecLoaded: a word list is loaded and one word, with any number of      *)
(* placeholders, is resolved against it.                                   *)

\* the words given to merge_and_lookup: without a placeholder, with one,
\* with several, with and without literal hyphens and digits
AnyTokens ==
    {<<"a", "a">>, <<"a", "-", "a">>, <<"1", "a">>,
     <<"a", "$", "a">>, <<"a", "$", "a", "-", "a">>, <<"1", "$", "a">>,
     <<"a", "$", "a", "$", "a">>, <<"a", "-", "a", "$", "a", "$", "a">>,
     <<"1", "$", "a", "$", "a">>}

\* the frequencies int(frequency) reads from the lines of a word list
LineFrequencies == {0, 1, 2}

\* the word lists of at most MaxEntries lines over the keys ks
WordLists(ks) ==
    UNION {[1..n -> [word : ks, frequency : LineFrequencies]] : n \in 0..MaxEntries}

InitLoaded ==
    /\ custom_hyph_word \in AnyTokens
    /\ \E lines \in WordLists(LexKeys(custom_hyph_word)) :
          words = LoadWords(lines, <<>>)
    /\ result_base = NoCall
    /\ result_suppl = NoCall
    /\ output_base = <<>>
    /\ output_suppl = <<>>
    /\ confidences = NoConfidences
    /\ lm = LMStart
    /\ eb = EBStart
    /\ pass = PassIdle
    /\ crf = CrfIdle
    /\ boundaries = BoundariesIdle
    /\ rf = RfIdle

SpecLoaded == InitLoaded /\ [][Next]_vars

----------------------------------------------------------------------------
(* SpecFeatures: the three scripts extract the features of one pair of a   *)
(* prefix and a suffix.                                                    *)

\* the line 'prefix suffix' the scripts make of the pair
PairLine(prefix, suffix) == prefix \o <<" ">> \o suffix

\* one call of extract_features on the prefix crf.input and a suffix
ExtractCall(name, suffix, features) ==
    /\ crf.called = "none"
    /\ crf' = [crf EXCEPT !.called = name, !.suffix = suffix,
                          !.features = features]
    /\ UNCHANGED <<words, custom_hyph_word, result_base, result_suppl,
                   output_base, output_suppl, confidences, lm, eb, pass,
                   boundaries, rf>>

\* extract_features of the training script
TrainExtract ==
    \E suffix \in ShortSides, resume \in {"continue", "quit"} :
        ExtractCall("train", suffix,
                    crf_train_extract_features(PairLine(crf.input, suffix), resume))

\* CrfPredict.extract_features
PredictExtract ==
    \E suffix \in ShortSides :
        ExtractCall("predict", suffix,
                    CrfPredict_extract_features(PairLine(crf.input, suffix)))

\* extract_features of crf_evaluate.py
EvaluateExtract ==
    \E suffix \in ShortSides, resume \in {"continue", "quit"} :
        ExtractCall("evaluate", suffix,
                    crf_evaluate_extract_features(PairLine(crf.input, suffix), resume))

NextFeatures == TrainExtract \/ PredictExtract \/ EvaluateExtract

SpecFeatures == InitCrf /\ [][NextFeatures]_vars

----------------------------------------------------------------------------
(* SpecBoundaries: the word boundaries and the word probabilities of one   *)
(* sentence in language_model_evaluate.run and language_model_predict.run, *)
(* both requests of the sentence answered.                                 *)

\* the bound on the words of a sentence
MaxSentence == 3

\* the words of the sentences, each with a character that is no punctuation
\* symbol: a word without hyphenation symbol, words with one and with two
\* of them, a word that is a hyphenation symbol and nothing else
BoundaryWords ==
    {<<"x">>, <<"b", "$", "c">>, <<"d", "$", "e", "$", "f">>, <<"$">>}

\* input_words after the words of only punctuation symbols were removed
BoundarySentences == UNION {[1..n -> BoundaryWords] : n \in 1..MaxSentence}

InitBoundaries ==
    /\ \E script \in {"evaluate", "predict"},
          input_words \in BoundarySentences :
           boundaries = SentenceStart(script, input_words)
    /\ words = <<>>
    /\ custom_hyph_word = <<>>
    /\ result_base = NoCall /\ result_suppl = NoCall
    /\ output_base = <<>> /\ output_suppl = <<>>
    /\ confidences = NoConfidences
    /\ lm = LMStart
    /\ eb = EBStart
    /\ pass = PassIdle
    /\ crf = CrfIdle
    /\ rf = RfIdle

\* the sentence after the loop over input_words of a script
AfterWords(script) ==
    LET b == WordBoundaries(script, boundaries.input_words, 1, NoBoundaries)
    IN  [boundaries EXCEPT !.pc = "probabilities",
                           !.at = b,
                           !.todo = b.positions_hyphenated_words]

\* language_model_evaluate.run, the loop over input_words
EvaluateBoundaries ==
    /\ boundaries.script = "evaluate"
    /\ boundaries.status = "running"
    /\ boundaries.pc = "words"
    /\ boundaries' = AfterWords("evaluate")
    /\ UNCHANGED <<words, custom_hyph_word, result_base, result_suppl,
                   output_base, output_suppl, confidences, lm, eb, pass, crf,
                   rf>>

\* language_model_predict.run, the loop over input_words
PredictBoundaries ==
    /\ boundaries.script = "predict"
    /\ boundaries.status = "running"
    /\ boundaries.pc = "words"
    /\ boundaries' = AfterWords("predict")
    /\ UNCHANGED <<words, custom_hyph_word, result_base, result_suppl,
                   output_base, output_suppl, confidences, lm, eb, pass, crf,
                   rf>>

\* one turn of 'for word_pos in positions_hyphenated_words' of either
\* script, up to the two word probabilities
ProbabilityOfWord ==
    /\ boundaries.status = "running"
    /\ boundaries.pc = "probabilities"
    /\ boundaries.todo # <<>>
    /\ LET word_pos == Head(boundaries.todo)
           v0 == WordProbability(boundaries.at.word_boundaries_v0,
                                 boundaries.at.input_words_v0, word_pos)
           v1 == IF v0.raised = "none"
                 THEN WordProbability(boundaries.at.word_boundaries_v1,
                                      boundaries.at.input_words_v1, word_pos)
                 ELSE NoProbability
       IN  boundaries' = [boundaries EXCEPT
                            !.todo = Tail(@),
                            !.word_pos = word_pos,
                            !.prob_word_v0 = v0,
                            !.prob_word_v1 = v1,
                            !.status = IF v0.raised # "none" THEN v0.raised
                                       ELSE IF v1.raised # "none"
                                       THEN v1.raised ELSE @]
    /\ UNCHANGED <<words, custom_hyph_word, result_base, result_suppl,
                   output_base, output_suppl, confidences, lm, eb, pass, crf,
                   rf>>

\* the end of the loop over positions_hyphenated_words
SentenceDone ==
    /\ boundaries.status = "running"
    /\ boundaries.pc = "probabilities"
    /\ boundaries.todo = <<>>
    /\ boundaries' = [boundaries EXCEPT !.status = "done"]
    /\ UNCHANGED <<words, custom_hyph_word, result_base, result_suppl,
                   output_base, output_suppl, confidences, lm, eb, pass, crf,
                   rf>>

NextBoundaries ==
    \/ EvaluateBoundaries
    \/ PredictBoundaries
    \/ ProbabilityOfWord
    \/ SentenceDone

SpecBoundaries == InitBoundaries /\ [][NextBoundaries]_vars

----------------------------------------------------------------------------
(* SpecProcess: ProcessFile.run over a hyphenated file.                    *)

\* the types of model of process_file.py
ModelTypes == {"base", "base2", "logreg", "langmod"}

\* the hyphenated sentences of the file: a token before a word, a token
\* after a word, a word alone, a token with two hyphenation symbols
ProcessSentences ==
    {<<  <<"B", "$", "a">>, <<"c", "c">>  >>,
     <<  <<"c", "c">>, <<"b", "$", "a">>  >>,
     <<  <<"c", "c">>  >>,
     <<  <<"a", "$", "a", "$", "a">>, <<"c", "c">>  >>}

\* the original sentence of a hyphenated sentence, which run ignores
OriginalOf(s) == [i \in DOMAIN s |-> Replace(s[i], hyphen_symbol, <<>>)]

\* the lines of the file, with one TAB each, and a line without TAB
ProcessLines ==
    {<<s, OriginalOf(s)>> : s \in ProcessSentences}
        \cup {<<  << <<"c", "c">> >>  >>}

\* the hyphenated files
ProcessFiles == UNION {[1..n -> ProcessLines] : n \in 1..MaxLines}

InitProcess ==
    /\ \E model_type \in ModelTypes, file \in ProcessFiles :
        /\ rf = RunStart(model_type, file)
        /\ words \in (IF model_type \in {"base", "base2"}
                      THEN PassLexicons ELSE {<<>>})
    /\ custom_hyph_word = <<>>
    /\ result_base = NoCall /\ result_suppl = NoCall
    /\ output_base = <<>> /\ output_suppl = <<>>
    /\ confidences = NoConfidences
    /\ lm = LMStart
    /\ eb = EBStart
    /\ pass = PassIdle
    /\ crf = CrfIdle
    /\ boundaries = BoundariesIdle

\* one turn of 'for line in hf' of run
RunLine ==
    /\ rf.status = "running"
    /\ rf.line_counter < Len(rf.file)
    /\ LET parts == rf.file[rf.line_counter + 1]
       IN  IF rf.model_type = "langmod"
           THEN rf' = [rf EXCEPT
                         !.line_counter = @ + 1,
                         !.status = IF LanguageModelRaises(parts) = "none"
                                    THEN @ ELSE LanguageModelRaises(parts)]
           ELSE IF Len(parts) # 2
           THEN rf' = [rf EXCEPT !.line_counter = @ + 1,
                                 !.status = "ValueError"]
           ELSE \E labels \in [DOMAIN parts[1] ->
                                   IF rf.model_type = "logreg"
                                   THEN CrfLabels ELSE {"none"}] :
                    LET input_sentence == parts[1]
                        o == RunWords(rf.model_type, words, input_sentence,
                                      labels, 1, NoOutput)
                    IN  rf' = [rf EXCEPT
                                 !.line_counter = @ + 1,
                                 !.status = IF o.raised = "none" THEN @
                                            ELSE o.raised,
                                 !.written =
                                     IF o.raised # "none" THEN @
                                     ELSE Append(@,
                                          [input_sentence |-> input_sentence,
                                           output_sentence |->
                                               IF o.none THEN <<NoneWord>>
                                               ELSE o.sentence])]
    /\ UNCHANGED <<words, custom_hyph_word, result_base, result_suppl,
                   output_base, output_suppl, confidences, lm, eb, pass, crf,
                   boundaries>>

\* the end of the file
RunEnd ==
    /\ rf.status = "running"
    /\ rf.line_counter = Len(rf.file)
    /\ rf' = [rf EXCEPT !.status = "done"]
    /\ UNCHANGED <<words, custom_hyph_word, result_base, result_suppl,
                   output_base, output_suppl, confidences, lm, eb, pass, crf,
                   boundaries>>

NextProcess == RunLine \/ RunEnd

SpecProcess == InitProcess /\ [][NextProcess]_vars

----------------------------------------------------------------------------
(* Properties.                                                             *)

\* the frequency of a word, 0 when the lexicon does not hold it
Freq(w, key) == IF key \in DOMAIN w THEN w[key] ELSE 0

RECURSIVE SumValues(_)
\* the sum of the confidences of a mapping
SumValues(d) == IF d = <<>> THEN 0 ELSE Head(d).v + SumValues(Tail(d))

\* the call returned a mapping
Resolved(r) == r.raised = "none"

\* both words of the scorer's lexicon are present with frequency >= 1
ScoreBothPresent ==
    /\ ScoreMerged \in DOMAIN words /\ words[ScoreMerged] >= 1
    /\ ScoreHyphenated \in DOMAIN words /\ words[ScoreHyphenated] >= 1

\* freq(merged)/total lies exactly halfway between two hundredths
ScoreTie ==
    LET t == Freq(words, ScoreMerged) + Freq(words, ScoreHyphenated)
    IN  t > 0 /\ 2 * ((100 * Freq(words, ScoreMerged)) % t) = t

\* C1 as stated: when both forms are in the lexicon with frequency >= 1,
\* the two confidences of calculate_confidence_score add up to exactly 1.00.
C1_SumExactlyOne ==
    \A s \in {"base", "suppl"} :
        (ScoreBothPresent /\ Resolved(confidences[s]))
            => SumValues(confidences[s].items) = 100

\* C1 amended: when both forms are in the lexicon with frequency >= 1, the
\* two confidences add up to 1.00 to within one hundredth (0.99, 1.00 or
\* 1.01), and to exactly 1.00 unless freq/total lies exactly halfway between
\* two hundredths.
C1_SumWithinOneHundredth ==
    \A s \in {"base", "suppl"} :
        (ScoreBothPresent /\ Resolved(confidences[s]))
            => /\ SumValues(confidences[s].items) \in 99..101
               /\ ~ScoreTie => SumValues(confidences[s].items) = 100

\* C1 witness: both scorers ran on a lexicon with both forms, one where the
\* halfway case makes the sum 0.99
C1_Witness ==
    /\ ScoreBothPresent /\ ScoreTie
    /\ Resolved(confidences.base) /\ Resolved(confidences.suppl)
    /\ SumValues(confidences.base.items) = 99
    /\ SumValues(confidences.suppl.items) = 99

\* C2: calculate_confidence_score returns a two-entry mapping, the merged
\* form mapped to round(freq(merged)/total, 2) and the hyphenated form to
\* round(freq(hyphenated)/total, 2), each a nearest hundredth of its
\* quotient; for email=570, e-mail=430 these are 0.57 and 0.43 and email is
\* the top candidate.
C2_ScoreMapping ==
    Resolved(confidences.base) =>
        LET d == confidences.base.items
            fm == Freq(words, ScoreMerged)
            fh == Freq(words, ScoreHyphenated)
            cm == DictGet(d, ScoreMerged)
            ch == DictGet(d, ScoreHyphenated)
        IN  /\ Len(d) = 2
            /\ Keys(d) = {ScoreMerged, ScoreHyphenated}
            /\ cm = PyRound2(fm, fm + fh)
            /\ ch = PyRound2(fh, fm + fh)
            /\ 2 * (100 * fm - cm * (fm + fh)) \in -(fm + fh)..(fm + fh)
            /\ 2 * (100 * fh - ch * (fm + fh)) \in -(fm + fh)..(fm + fh)
            /\ (fm = 570 /\ fh = 430)
                   => cm = 57 /\ ch = 43 /\ TopCandidate(d).k = ScoreMerged

\* C2 witness: the scorer ran on email=570, e-mail=430
C2_Witness ==
    /\ Freq(words, ScoreMerged) = 570 /\ Freq(words, ScoreHyphenated) = 430
    /\ Resolved(confidences.base)
    /\ DictGet(confidences.base.items, ScoreMerged) = 57

\* the two forms BaselineWithSupplements looks up for the whole token
SupplMergedLookup(tok) ==
    IF HasDigit(tok) THEN SubDigits(MergedForm(tok)) ELSE MergedForm(tok)
SupplHyphenatedLookup(tok) ==
    IF HasDigit(tok) THEN SubDigits(HyphenatedForm(tok)) ELSE HyphenatedForm(tok)

\* the result a strategy owes a token of which exactly one lookup form,
\* mf or hf, is in the lexicon
SingleKnown(r, mf, hf) ==
    /\ (mf \in DOMAIN words /\ hf \notin DOMAIN words)
          => r.items = <<[k |-> MergedForm(custom_hyph_word), v |-> 100]>>
    /\ (hf \in DOMAIN words /\ mf \notin DOMAIN words)
          => r.items = <<[k |-> HyphenatedForm(custom_hyph_word), v |-> 100]>>

\* C3: when exactly one of the two lookup forms of a token (merged,
\* hyphenated; digit-substituted when BaselineWithSupplements resolves a
\* digit-bearing token) is in the lexicon, merge_and_lookup of either
\* strategy returns exactly one entry: that form of the token, in lowercase,
\* with confidence 1.
C3_SingleKnownForm ==
    /\ Resolved(result_base)
          => SingleKnown(result_base, MergedForm(custom_hyph_word),
                         HyphenatedForm(custom_hyph_word))
    /\ Resolved(result_suppl)
          => SingleKnown(result_suppl, SupplMergedLookup(custom_hyph_word),
                         SupplHyphenatedLookup(custom_hyph_word))
    /\ \A r \in {result_base, result_suppl} :
          \A i \in DOMAIN r.items : Lower(r.items[i].k) = r.items[i].k

\* C3 witness: a token with an uppercase letter and a digit, only its
\* hyphenated lookup form known to either strategy, resolved by both
C3_Witness ==
    /\ HasDigit(custom_hyph_word)
    /\ \E i \in DOMAIN custom_hyph_word : custom_hyph_word[i] = "B"
    /\ DOMAIN words = {HyphenatedForm(custom_hyph_word),
                       SupplHyphenatedLookup(custom_hyph_word)}
    /\ result_base.items = <<[k |-> HyphenatedForm(custom_hyph_word), v |-> 100]>>
    /\ result_suppl.items = <<[k |-> HyphenatedForm(custom_hyph_word), v |-> 100]>>

\* every form the two strategies try for a token
TriedForms(tok) ==
    {MergedForm(tok), HyphenatedForm(tok),
     SubDigits(MergedForm(tok)), SubDigits(HyphenatedForm(tok)),
     SubwordPrefix(tok) \o SubwordSuffix(tok),
     SubwordPrefix(tok) \o <<"-">> \o SubwordSuffix(tok)}

\* C4: a token absent from the lexicon in every form tried (merged,
\* hyphenated, digit-substituted, subword) is resolved by either strategy to
\* exactly {lowercased merged form: 0}.
C4_UnknownToken ==
    \A r \in {result_base, result_suppl} :
        (Resolved(r) /\ \A f \in TriedForms(custom_hyph_word) : f \notin DOMAIN words)
            => r.items = <<[k |-> MergedForm(custom_hyph_word), v |-> 0]>>

\* C4 witness: a token with a digit and a literal hyphen, resolved by both
\* strategies against a lexicon that holds only another word
C4_Witness ==
    /\ DOMAIN words = {OtherWord}
    /\ HasDigit(custom_hyph_word) /\ HasHyphen(custom_hyph_word)
    /\ result_base.items = <<[k |-> MergedForm(custom_hyph_word), v |-> 0]>>
    /\ result_suppl.items = <<[k |-> MergedForm(custom_hyph_word), v |-> 0]>>

\* C5: every key BaselineWithSupplements returns for a digit-bearing token
\* is the lowercased merged or hyphenated form of the token, with its
\* original digits, and holds no digit placeholder glyph.
C5_DigitsRestored ==
    (HasDigit(custom_hyph_word) /\ Resolved(result_suppl))
        => \A i \in DOMAIN result_suppl.items :
               LET key == result_suppl.items[i].k
               IN  /\ key \in {MergedForm(custom_hyph_word),
                                HyphenatedForm(custom_hyph_word)}
                   /\ \A j \in DOMAIN key : key[j] # digit_symbol

\* C5 witness: a digit-bearing token found in both digit-substituted forms,
\* returned as two candidates
C5_Witness ==
    /\ HasDigit(custom_hyph_word)
    /\ SubDigits(MergedForm(custom_hyph_word)) \in DOMAIN words
    /\ SubDigits(HyphenatedForm(custom_hyph_word)) \in DOMAIN words
    /\ Resolved(result_suppl)
    /\ Keys(result_suppl.items) = {MergedForm(custom_hyph_word),
                                   HyphenatedForm(custom_hyph_word)}

\* C6: a digit-bearing token of which both digit-substituted forms are in
\* the lexicon is resolved by BaselineWithSupplements to exactly two
\* candidates, the digit-restored merged form and the digit-restored
\* hyphenated form, each with the scorer's confidence of its own form, also
\* when the token holds further literal hyphens.
C6_DigitBothFound ==
    LET nm == SubDigits(MergedForm(custom_hyph_word))
        nh == SubDigits(HyphenatedForm(custom_hyph_word))
        d == result_suppl.items
    IN  (/\ HasDigit(custom_hyph_word)
         /\ nm \in DOMAIN words /\ nh \in DOMAIN words
         /\ Resolved(result_suppl))
            => /\ Len(d) = 2
               /\ Keys(d) = {MergedForm(custom_hyph_word),
                             HyphenatedForm(custom_hyph_word)}
               /\ DictGet(d, MergedForm(custom_hyph_word))
                      = PyRound2(words[nm], words[nm] + words[nh])
               /\ DictGet(d, HyphenatedForm(custom_hyph_word))
                      = PyRound2(words[nh], words[nm] + words[nh])

\* C7: for a token with further literal hyphens whose whole-token forms are
\* not in the lexicon, when the hyphen-delimited subword around the
\* placeholder is found BaselineWithSupplements answers with the full forms:
\* confidence 1 on the matching full form when one subword form is found,
\* else freq(merged subword)/total on the full merged form and
\* freq(hyphenated subword)/total on the full hyphenated form.
C7_SubwordFallback ==
    LET tok == custom_hyph_word
        sm == SegmentLeft(tok) \o SegmentRight(tok)
        sh == SegmentLeft(tok) \o <<"-">> \o SegmentRight(tok)
        d == result_suppl.items
    IN  (/\ HasHyphen(tok)
         /\ SupplMergedLookup(tok) \notin DOMAIN words
         /\ SupplHyphenatedLookup(tok) \notin DOMAIN words
         /\ Resolved(result_suppl))
            => /\ (sm \in DOMAIN words /\ sh \notin DOMAIN words)
                     => d = <<[k |-> MergedForm(tok), v |-> 100]>>
               /\ (sh \in DOMAIN words /\ sm \notin DOMAIN words)
                     => d = <<[k |-> HyphenatedForm(tok), v |-> 100]>>
               /\ (sm \in DOMAIN words /\ sh \in DOMAIN words)
                     => /\ Keys(d) = {MergedForm(tok), HyphenatedForm(tok)}
                        /\ DictGet(d, MergedForm(tok))
                               = PyRound2(words[sm], words[sm] + words[sh])
                        /\ DictGet(d, HyphenatedForm(tok))
                               = PyRound2(words[sh], words[sm] + words[sh])

\* C8: whenever a resolution result holds two candidates of equal
\* confidence, the word chosen from it is the merged form, on every path of
\* both dictionary strategies.
C8_TieMeansMerge ==
    /\ (Resolved(result_base) /\ Len(result_base.items) = 2
           /\ result_base.items[1].v = result_base.items[2].v)
          => output_base = MergedForm(custom_hyph_word)
    /\ (Resolved(result_suppl) /\ Len(result_suppl.items) = 2
           /\ result_suppl.items[1].v = result_suppl.items[2].v)
          => output_suppl = MergedForm(custom_hyph_word)

\* the decision rule as the specification states it, in hundredths
KeepRule(p0, p1) == IF p1 > 50 THEN p1 - p0 > 1 ELSE p1 - p0 >= 10

\* C9: with delta = round(prob_v1 - prob_v0, 2) the hyphen is kept iff
\* delta > 0.01 when prob_v1 > 0.5, and iff delta >= 0.1 otherwise; the
\* prediction script and the evaluation script decide alike on every pair
\* of two-decimal probabilities (0.80/0.60 keeps, 0.40/0.38 merges).
C9_DecisionRule ==
    LET p0 == lm.prob_word_v0
        p1 == lm.prob_word_v1
        rule == IF KeepRule(p0, p1) THEN "keep" ELSE "merge"
    IN  /\ lm.keep_eval \in {"none", rule}
        /\ lm.keep_predict \in {"none", rule}
        /\ (p1 = 80 /\ p0 = 60) => lm.keep_eval # "merge" /\ lm.keep_predict # "merge"
        /\ (p1 = 40 /\ p0 = 38) => lm.keep_eval # "keep" /\ lm.keep_predict # "keep"

\* C9 witness: both scripts decided 0.40/0.38 and merged
C9_Witness ==
    /\ lm.prob_word_v1 = 40 /\ lm.prob_word_v0 = 38
    /\ lm.keep_eval = "merge" /\ lm.keep_predict = "merge"

\* the four confusion counters and the four ambiguous counters
ConfusionCells ==
    {"num_predicted_v0_expected_v0", "num_predicted_v0_expected_v1",
     "num_predicted_v1_expected_v0", "num_predicted_v1_expected_v1"}
AmbiguousCells ==
    {"num_predicted_v0_expected_v0_ambiguous",
     "num_predicted_v0_expected_v1_ambiguous",
     "num_predicted_v1_expected_v0_ambiguous",
     "num_predicted_v1_expected_v1_ambiguous"}

\* the sum of the four counters of a confusion matrix
ConfusionTotal(c) ==
    c.num_predicted_v0_expected_v0 + c.num_predicted_v0_expected_v1
    + c.num_predicted_v1_expected_v0 + c.num_predicted_v1_expected_v1
AmbiguousTotal(c) ==
    c.num_predicted_v0_expected_v0_ambiguous
    + c.num_predicted_v0_expected_v1_ambiguous
    + c.num_predicted_v1_expected_v0_ambiguous
    + c.num_predicted_v1_expected_v1_ambiguous

\* exactly one counter of the set cells grows, by one, from c to d
ExactlyOneGrows(cells, c, d) ==
    \E f \in cells : /\ d[f] = c[f] + 1
                     /\ \A g \in cells \ {f} : d[g] = c[g]

\* C10: every compared word increments exactly one of the four confusion
\* counters and exactly one of the four ambiguous counters, so the two
\* totals stay equal.
C10_OneCellEach ==
    [][/\ ExactlyOneGrows(ConfusionCells, lm, lm')
       /\ ExactlyOneGrows(AmbiguousCells, lm, lm')
       /\ AmbiguousTotal(lm') = ConfusionTotal(lm')
       /\ ConfusionTotal(lm') = lm'.compared]_vars

\* C10 witness: a pass that compared words of which one wrongly kept hyphen
\* was counted as ambiguous and one was not
C10_Witness ==
    /\ lm.num_predicted_v1_expected_v0 = 2
    /\ lm.num_predicted_v0_expected_v0_ambiguous = 1
    /\ lm.num_predicted_v1_expected_v0_ambiguous = 1
    /\ lm.compared >= 2

\* counter f grows by one from c to d
Grew(c, d, f) == d[f] = c[f] + 1

\* the step from c to d counted a wrongly kept / a wrongly merged hyphen
WrongKeep(c, d) == Grew(c, d, "num_predicted_v1_expected_v0")
WrongMerge(c, d) == Grew(c, d, "num_predicted_v0_expected_v1")

\* the ambiguous cell of a misprediction: with high, the correct cell of the
\* expected label, else the cell that matches the confusion cell
AmbiguousRule(c, d, high) ==
    /\ WrongKeep(c, d)
          => IF high THEN Grew(c, d, "num_predicted_v0_expected_v0_ambiguous")
                     ELSE Grew(c, d, "num_predicted_v1_expected_v0_ambiguous")
    /\ WrongMerge(c, d)
          => IF high THEN Grew(c, d, "num_predicted_v1_expected_v1_ambiguous")
                     ELSE Grew(c, d, "num_predicted_v0_expected_v1_ambiguous")

\* C12 as stated: a mispredicted word is counted in the correct ambiguous
\* cell of its expected label exactly when both word probabilities exceed
\* 0.75, and in the ambiguous cell of its confusion cell otherwise.
C12_ExceedThreshold ==
    [][AmbiguousRule(lm, lm', lm'.prob_word_v0 > 75 /\ lm'.prob_word_v1 > 75)]_vars

\* C12 amended: a mispredicted word is counted in the correct ambiguous cell
\* of its expected label exactly when both word probabilities are at least
\* 0.75, and in the ambiguous cell of its confusion cell otherwise.
C12_AtLeastThreshold ==
    [][AmbiguousRule(lm, lm', lm'.prob_word_v0 >= 75 /\ lm'.prob_word_v1 >= 75)]_vars

\* C12 witness: the first word, 0.75 without and 0.80 with the hyphen, kept
\* its hyphen against the expectation and was counted as a correct merge in
\* the ambiguous matrix
C12_Witness ==
    /\ lm.compared = 1
    /\ lm.prob_word_v0 = 75 /\ lm.prob_word_v1 = 80
    /\ lm.keep_eval = "keep" /\ lm.expected_word = "v0"
    /\ lm.num_predicted_v1_expected_v0 = 1
    /\ lm.num_predicted_v0_expected_v0_ambiguous = 1

\* the four error-category counters
CategoryCells ==
    {"num_error_category_1", "num_error_category_2",
     "num_error_category_3", "num_error_category_4"}
CategoryTotal(c) ==
    c.num_error_category_1 + c.num_error_category_2
    + c.num_error_category_3 + c.num_error_category_4

\* the category of a pair of word probabilities: both, only keep, only
\* merge, neither at least 0.5
CategoryOf(p0, p1) ==
    IF p0 >= 50
    THEN IF p1 >= 50 THEN "num_error_category_1" ELSE "num_error_category_3"
    ELSE IF p1 >= 50 THEN "num_error_category_2" ELSE "num_error_category_4"

\* C13: a mismatch increments exactly one error-category counter, the one
\* of its pair of probabilities at 0.5; a correct prediction changes none;
\* the four category counters sum to the two off-diagonal confusion cells.
C13_OneCategoryPerMismatch ==
    [][/\ (WrongKeep(lm, lm') \/ WrongMerge(lm, lm'))
             => /\ Grew(lm, lm', CategoryOf(lm'.prob_word_v0, lm'.prob_word_v1))
                /\ ExactlyOneGrows(CategoryCells, lm, lm')
       /\ ~(WrongKeep(lm, lm') \/ WrongMerge(lm, lm'))
             => \A f \in CategoryCells : lm'[f] = lm[f]
       /\ CategoryTotal(lm') = lm'.num_predicted_v0_expected_v1
                                 + lm'.num_predicted_v1_expected_v0]_vars

\* C13 witness: a pass with a correct word, a mismatch of the first and a
\* mismatch of the fourth category
C13_Witness ==
    /\ lm.compared = 3
    /\ ConfusionTotal(lm) = 3
    /\ lm.num_error_category_1 = 1 /\ lm.num_error_category_4 = 1
    /\ lm.num_predicted_v0_expected_v1 + lm.num_predicted_v1_expected_v0 = 2

\* the smaller of a and b, the larger of a and b
Min(a, b) == IF a < b THEN a ELSE b
Max(a, b) == IF a > b THEN a ELSE b

\* the feature keys of a side, "p:" or "s:", besides its bigrams
SideKeys(side) ==
    {side \o "isuppercase", side \o "isdigit", side \o "hashyphen",
     side \o "lower"}

\* every feature key of a prefix, of a suffix
AllPrefixKeys == SideKeys("p:") \cup {"p:-1bigram", "p:-2bigram", "p:-3bigram"}
AllSuffixKeys == SideKeys("s:") \cup {"s:+1bigram", "s:+2bigram", "s:+3bigram"}

\* the key of the k-th bigram of a prefix, of a suffix
PrefixBigramKey(k) ==
    IF k = 1 THEN "p:-1bigram" ELSE IF k = 2 THEN "p:-2bigram" ELSE "p:-3bigram"
SuffixBigramKey(k) ==
    IF k = 1 THEN "s:+1bigram" ELSE IF k = 2 THEN "s:+2bigram" ELSE "s:+3bigram"

\* the features a side w owes besides the bigrams, in the dict d
SideFlags(d, side, w) ==
    /\ DictGet(d, side \o "lower") = Lower(w)
    /\ DictGet(d, side \o "hashyphen") = (\E i \in DOMAIN w : w[i] = "-")
    /\ DictGet(d, side \o "isdigit") = (w # <<>> /\ \A i \in DOMAIN w : w[i] = "1")
    /\ (w # <<>> /\ \A i \in DOMAIN w : w[i] = "B") => DictGet(d, side \o "isuppercase")
    /\ (\E i \in DOMAIN w : w[i] = "a") => ~DictGet(d, side \o "isuppercase")

\* the prefix features of a prefix w in the dict d: the k-th bigram is the
\* lowercased pair of characters that ends k-1 characters before the end
PrefixFeaturesOf(d, w) ==
    LET n == Len(w)
        nb == Min(Max(n - 1, 0), 3)
    IN  /\ Keys(d) \cap AllPrefixKeys
               = SideKeys("p:") \cup {PrefixBigramKey(k) : k \in 1..nb}
        /\ \A k \in 1..nb :
               DictGet(d, PrefixBigramKey(k))
                   = <<LowerChar(w[n - k]), LowerChar(w[n - k + 1])>>
        /\ SideFlags(d, "p:", w)

\* the suffix features of a suffix w in the dict d: the k-th bigram is the
\* lowercased pair of characters that starts k-1 characters after the start
SuffixFeaturesOf(d, w) ==
    LET n == Len(w)
        nb == Min(Max(n - 1, 0), 3)
    IN  /\ Keys(d) \cap AllSuffixKeys
               = SideKeys("s:") \cup {SuffixBigramKey(k) : k \in 1..nb}
        /\ \A k \in 1..nb :
               DictGet(d, SuffixBigramKey(k))
                   = <<LowerChar(w[k]), LowerChar(w[k + 1])>>
        /\ SideFlags(d, "s:", w)

\* C20: for a prefix or suffix of length n the extractor emits exactly
\* min(max(n-1, 0), 3) bigram features, the prefix bigrams taken from its
\* end and the suffix bigrams from its start, all lowercased, next to the
\* hyphen-presence, all-digit, all-uppercase and lowercased-string features
\* of the side and, for a word, the word-shape feature.
C20_BigramFeatures ==
    LET d == crf.features.items
    IN  /\ crf.called \in {"predict_prefix", "evaluate_prefix"}
              => PrefixFeaturesOf(d, crf.input) /\ Len(d) = Cardinality(Keys(d))
                    /\ Keys(d) \subseteq AllPrefixKeys
        /\ crf.called \in {"predict_suffix", "evaluate_suffix"}
              => SuffixFeaturesOf(d, crf.input) /\ Len(d) = Cardinality(Keys(d))
                    /\ Keys(d) \subseteq AllSuffixKeys
        /\ crf.called = "predict_word"
              => /\ Resolved(crf.features)
                 /\ PrefixFeaturesOf(d, crf.input)
                 /\ SuffixFeaturesOf(d, crf.suffix)
                 /\ Keys(d) \ (AllPrefixKeys \cup AllSuffixKeys) = {"word-shape"}
                 /\ DictGet(d, "word-shape")
                        = [i \in 1..(Len(crf.input) + 1 + Len(crf.suffix)) |->
                               IF i = Len(crf.input) + 1 THEN "-" ELSE "x"]

\* C20 witness: the prefix '1B-a' gave the three bigrams '-a', 'b-', '1b'
C20_Witness ==
    /\ crf.called = "predict_prefix"
    /\ crf.input = <<"1", "B", "-", "a">>
    /\ DictGet(crf.features.items, "p:-1bigram") = <<"-", "a">>
    /\ DictGet(crf.features.items, "p:-2bigram") = <<"b", "-">>
    /\ DictGet(crf.features.items, "p:-3bigram") = <<"1", "b">>

\* the four case tables of EvaluateBaseline
Cases == {"tp", "tn", "fp", "fn"}

RECURSIVE SumFrequencies(_)
\* the sum of the 'frequency' values of a case table
SumFrequencies(table) ==
    IF table = <<>> THEN 0
    ELSE Head(table).v.frequency + SumFrequencies(Tail(table))

\* the call from e to f filed its word under case
FiledUnder(e, f, case) ==
    LET input == f.last.input
    IN  /\ f[CounterOf(case)] = e[CounterOf(case)] + 1
        /\ \A other \in Cases \ {case} :
               /\ f[CounterOf(other)] = e[CounterOf(other)]
               /\ f[other] = e[other]
        /\ Keys(f[case]) = Keys(e[case]) \cup {input}
        /\ \A key \in Keys(e[case]) \ {input} :
               DictGet(f[case], key) = DictGet(e[case], key)
        /\ IF input \in Keys(e[case])
           THEN /\ DictGet(f[case], input).frequency
                      = DictGet(e[case], input).frequency + 1
                /\ DictGet(f[case], input).confidence
                      = DictGet(e[case], input).confidence
           ELSE DictGet(f[case], input)
                    = [frequency |-> 1, confidence |-> f.last.confidence]

\* C18: each call of evaluate_words increments exactly one of the four
\* counters by one and changes only the table of that case; a repeated
\* input increments the frequency of its entry and keeps the confidence of
\* its first occurrence; each counter equals the sum of the frequencies of
\* its table.
C18_OneCaseEachCall ==
    [][/\ eb'.calls = eb.calls + 1
       /\ \E case \in Cases : FiledUnder(eb, eb', case)
       /\ \A case \in Cases :
              eb'[CounterOf(case)] = SumFrequencies(eb'[case])]_vars

\* C18 witness: the doctest's false positive filed twice, the second time
\* with another confidence: frequency 2, confidence of the first call
C18_Witness ==
    /\ eb.calls = 2
    /\ eb.fp_counter = 2
    /\ eb.last.input = <<"e", "$", "m">> /\ eb.last.confidence = 51
    /\ eb.fp = <<[k |-> <<"e", "$", "m">>,
                  v |-> [frequency |-> 2, confidence |-> 100]]>>

\* C19: evaluate_words files a word under FP only when the predicted
\* output is its hyphenated form and the expected output its merged form,
\* under FN only when the predicted output is the merged and the expected
\* output the hyphenated form, under TP only when both are the hyphenated
\* form and under TN only when both are the merged form.
C19_CaseMeansForms ==
    [][LET input == eb'.last.input
           output == eb'.last.output
           expected == eb'.last.exp_outputput
       IN  /\ Grew(eb, eb', "fp_counter")
                 => output = HyphenatedForm(input) /\ expected = MergedForm(input)
           /\ Grew(eb, eb', "fn_counter")
                 => output = MergedForm(input) /\ expected = HyphenatedForm(input)
           /\ Grew(eb, eb', "tp_counter")
                 => output = HyphenatedForm(input) /\ expected = HyphenatedForm(input)
           /\ Grew(eb, eb', "tn_counter")
                 => output = MergedForm(input) /\ expected = MergedForm(input)]_vars

----------------------------------------------------------------------------
(* Properties of a dataset pass.                                           *)

\* a step of the pass that is a request of the language-model harness
RequestStep == pass.status = "running" /\ pass.pc \in {"v0", "v1"}

\* the failures of a request that are no connection failure
RequestFailures == {"Exception", "non200", "empty"}

\* the failures to connect to the service
ConnectionFailures == {"ConnectionError", "requests.ConnectionError"}

\* C14: when the v0 or the v1 request of a sentence fails with an
\* exception that is no connection failure, with another status than 200
\* or with an empty body, no counter of run changes, the sentence is left
\* and the pass goes on with the next line.
C14_FailedRequestSkipsSentence ==
    [][(RequestStep /\ pass'.request.outcome \in RequestFailures)
           => /\ lm' = lm
              /\ pass'.status = "running"
              /\ pass'.pc = "read"
              /\ pass'.line = NoLine
              /\ pass'.line_num = pass.line_num + 1]_vars

\* the v1 request of the first line got an empty body, and the second
\* line has been read
C14_Witness ==
    /\ pass.request = [version |-> "v1", outcome |-> "empty"]
    /\ pass.status = "running"
    /\ pass.line_num = 1
    /\ pass.pc = "v0"

\* C15: a connection failure of either request of the evaluation script
\* ends the process.
C15_ConnectionFailureExits ==
    [][(RequestStep /\ pass'.request.outcome \in ConnectionFailures)
           => pass'.status = "exit"]_vars

\* the cells of the confusion matrix of the harness of the pass
PassCells ==
    IF pass.harness = "language_model"
    THEN lm.num_predicted_v0_expected_v0 + lm.num_predicted_v0_expected_v1
         + lm.num_predicted_v1_expected_v0 + lm.num_predicted_v1_expected_v1
    ELSE eb.tp_counter + eb.tn_counter + eb.fp_counter + eb.fn_counter

\* the pass is between two lines or at its end
BetweenLines ==
    pass.status \in {"running", "done"} /\ pass.pc = "read"

\* C11 (as stated): between the lines and at the end of a pass the four
\* cells of the confusion matrix add up to the number of placeholders of
\* the tokens of the lines that were not skipped.
C11_CountsPlaceholders == BetweenLines => PassCells = pass.placeholders

\* C11 (amended): between the lines and at the end of a pass the four
\* cells add up to the number of hyphenated tokens of the lines that were
\* not skipped, a token with several placeholders counting once.
C11_CountsTokens == BetweenLines => PassCells = pass.hyphenated

\* a pass came to its end over two tokens, one of them with two
\* placeholders
C11_Witness ==
    pass.status = "done" /\ pass.hyphenated = 2 /\ pass.placeholders = 3

\* the diagonal of a confusion matrix
LMDiagonal(c) == c.num_predicted_v0_expected_v0 + c.num_predicted_v1_expected_v1
EBDiagonal(e) == e.tp_counter + e.tn_counter

\* C16: a line with no TAB, with more than one TAB or with sentences of
\* different numbers of tokens changes no counter and does not end the
\* pass, in the dictionary harness and in the language-model harness.
C16_MalformedLineIsSkipped ==
    [][pass'.line.malformed
           => /\ pass'.status \in {"running", "done"}
              /\ lm' = lm
              /\ eb' = eb]_vars

\* C17: a predicted word and an expected word that are equal up to letter
\* case are counted on the diagonal of the confusion matrix, in the
\* language-model harness and in the dictionary harness.
C17_ComparedCaseInsensitively ==
    [][/\ (/\ pass.harness = "language_model"
           /\ pass'.line.compared = pass.line.compared + 1
           /\ Lower(pass'.line.predicted_word) = Lower(pass'.line.expected_word))
              => LMDiagonal(lm') = LMDiagonal(lm) + 1
       /\ (/\ pass.harness \in {"basic", "supplemented"}
           /\ eb'.calls = eb.calls + 1
           /\ Lower(eb'.last.output) = Lower(eb'.last.exp_outputput))
              => EBDiagonal(eb') = EBDiagonal(eb) + 1]_vars

----------------------------------------------------------------------------
(* Properties of the resolvers on any word and any word list.              *)

\* the results of the calls made so far
ResultsSoFar == {r \in {result_base, result_suppl} : r # NoCall}

\* C21: merge_and_lookup on a word without a placeholder raises an error
\* and returns no mapping, in both classes.
C21_NoPlaceholderFails ==
    Count(custom_hyph_word, hyphen_symbol) = 0
        => \A r \in ResultsSoFar : ~Resolved(r)

\* C22: no call of calculate_confidence_score made by merge_and_lookup
\* divides by zero, whatever word list was loaded.
C22_NeverDividesByZero ==
    \A r \in ResultsSoFar : r.raised # "ZeroDivisionError"

\* C26: on a lower-case word with one placeholder or more, literal hyphens
\* included, and a word list of positive frequencies,
\* BaselineWithSupplements.merge_and_lookup returns a mapping that is not
\* empty.
C26_SupplementedAlwaysReturns ==
    (/\ result_suppl # NoCall
     /\ Count(custom_hyph_word, hyphen_symbol) >= 1
     /\ custom_hyph_word = Lower(custom_hyph_word)
     /\ \A k \in DOMAIN words : words[k] >= 1)
        => Resolved(result_suppl) /\ result_suppl.items # <<>>

----------------------------------------------------------------------------
(* Properties of the order of the cases of the supplemented resolver.      *)

\* the keys of the whole-word lookup: the two forms, with the digit symbol
\* for every digit when the word has a digit
WholeKeys(tok) ==
    IF HasDigit(tok)
    THEN {SubDigits(MergedForm(tok)), SubDigits(HyphenatedForm(tok))}
    ELSE {MergedForm(tok), HyphenatedForm(tok)}

\* the whole-word lookup finds a form
WholeFound == WholeKeys(custom_hyph_word) \cap DOMAIN words # {}

\* the entries of lexicon w under the keys ks
Restrict(w, ks) == [k \in DOMAIN w \cap ks |-> w[k]]

\* C23: when the whole-word lookup finds a form, the result of
\* BaselineWithSupplements.merge_and_lookup is the one of the lexicon
\* without any other entry; when it finds none and the word has no literal
\* hyphen, the result is the merged word with confidence 0.
C23_WholeWordBeforeSubword ==
    result_suppl # NoCall
        => /\ WholeFound
                => result_suppl =
                       BWS_merge_and_lookup(
                           Restrict(words, WholeKeys(custom_hyph_word)),
                           custom_hyph_word)
           /\ (~WholeFound /\ ~HasHyphen(custom_hyph_word))
                => result_suppl =
                       Returned(FromKeys(MergedForm(custom_hyph_word), 0))

\* a word with a literal hyphen was resolved by a form of the whole word
\* while the lexicon holds its subword
C23_Witness ==
    /\ result_suppl # NoCall
    /\ WholeFound
    /\ HasHyphen(custom_hyph_word)
    /\ (SubwordPrefix(custom_hyph_word) \o SubwordSuffix(custom_hyph_word))
           \in DOMAIN words \ WholeKeys(custom_hyph_word)

\* C27: on a word with one placeholder, without a digit and without a
\* literal hyphen, the two classes return the same mapping, with the same
\* order of its keys.
C27_SupplementsLeavePlainWords ==
    (/\ result_base # NoCall
     /\ result_suppl # NoCall
     /\ ~HasDigit(custom_hyph_word)
     /\ ~HasHyphen(custom_hyph_word))
        => result_suppl = result_base

\* both classes resolved a plain word of which both forms are in the
\* lexicon
C27_Witness ==
    /\ Resolved(result_base)
    /\ Resolved(result_suppl)
    /\ ~HasDigit(custom_hyph_word)
    /\ ~HasHyphen(custom_hyph_word)
    /\ Len(result_base.items) = 2

----------------------------------------------------------------------------
(* Properties of the features at training time and at inference time.      *)

\* two feature dicts hold the same keys with the same values
SameFeatures(d, e) ==
    /\ Keys(d) = Keys(e)
    /\ \A key \in Keys(d) : DictGet(d, key) = DictGet(e, key)

\* C29: for a prefix and a suffix, the feature dict of CrfPredict and the
\* one of crf_evaluate.py are the feature dict of the training script.
C29_SameFeaturesAsTraining ==
    (crf.called \in {"predict", "evaluate"} /\ Resolved(crf.features))
        => LET trained == crf_train_extract_features(
                              PairLine(crf.input, crf.suffix), "continue")
           IN  Resolved(trained) /\ SameFeatures(crf.features.items, trained.items)

\* C28: a pass that compared at least one hyphenated token ends with its
\* accuracy report written, never with a division by zero, also when all
\* the compared tokens have the same expected form.
C28_ReportAfterOneToken ==
    PassCells >= 1 => pass.status # "ZeroDivisionError"

----------------------------------------------------------------------------
(* Properties of the word boundaries of a sentence.                        *)

RECURSIVE OffsetOf(_, _)
\* the offset of the first character of word p in the sentence that joins
\* the words ws with single spaces
OffsetOf(ws, p) ==
    IF p = 1 THEN 0 ELSE OffsetOf(ws, p - 1) + Len(ws[p - 1]) + 1

\* the boundaries hold the start and the end offset of word p of ws
IsBoundaryOf(word_boundaries, ws, p) ==
    /\ p <= Len(word_boundaries)
    /\ word_boundaries[p] = <<OffsetOf(ws, p), OffsetOf(ws, p) + Len(ws[p])>>
    /\ SubSeq(Join(ws), word_boundaries[p][1] + 1, word_boundaries[p][2])
           = ws[p]

\* the word probability is the mean over the characters of word p of ws,
\* each read at its own position of the sentence
IsMeanOfOwnCharacters(prob_word, ws, p) ==
    /\ prob_word.raised = "none"
    /\ prob_word.divisor = Len(ws[p])
    /\ prob_word.read = [i \in 1..Len(ws[p]) |->
                             [i_sentence |-> OffsetOf(ws, p) + i - 1,
                              char |-> Join(ws)[OffsetOf(ws, p) + i]]]

\* the boundaries of the words at the positions ps are their offsets in
\* both variants, and the word whose probabilities were computed last, if
\* it has a character besides its hyphenation symbols, has the mean over
\* its own characters in both variants
BoundariesAreOffsets(ps) ==
    /\ \A p \in ps :
           /\ IsBoundaryOf(boundaries.at.word_boundaries_v0,
                           boundaries.at.input_words_v0, p)
           /\ IsBoundaryOf(boundaries.at.word_boundaries_v1,
                           boundaries.at.input_words_v1, p)
    /\ (boundaries.word_pos # 0
        /\ boundaries.at.input_words_v0[boundaries.word_pos] # <<>>)
           => /\ IsMeanOfOwnCharacters(boundaries.prob_word_v0,
                                       boundaries.at.input_words_v0,
                                       boundaries.word_pos)
              /\ IsMeanOfOwnCharacters(boundaries.prob_word_v1,
                                       boundaries.at.input_words_v1,
                                       boundaries.word_pos)

\* C24: in language_model_evaluate.run the boundaries of every word are its
\* start and end offsets in the space-joined v0 and v1 sentences, and the
\* probability of a hyphenated token is the mean over its own characters
\* in each variant.
C24_EvaluateBoundaries ==
    (boundaries.script = "evaluate" /\ boundaries.pc = "probabilities")
        => BoundariesAreOffsets(1..Len(boundaries.input_words))

\* the probabilities of a token with two hyphenation symbols that stands
\* third in its sentence, after another token and a word without symbol,
\* were computed by language_model_evaluate.run
C24_Witness ==
    /\ boundaries.script = "evaluate"
    /\ boundaries.word_pos = 3
    /\ boundaries.input_words[3] = <<"d", "$", "e", "$", "f">>
    /\ Len(boundaries.at.positions_hyphenated_words) = 2
    /\ boundaries.prob_word_v1.raised = "none"

\* C25: in language_model_predict.run the boundaries of every hyphenated
\* word exist and are its start and end offsets in the space-joined v0 and
\* v1 sentences, whatever the order of the hyphenated and the other words.
C25_PredictBoundaries ==
    (boundaries.script = "predict" /\ boundaries.pc = "probabilities")
        => BoundariesAreOffsets(
               {boundaries.at.positions_hyphenated_words[i] :
                    i \in DOMAIN boundaries.at.positions_hyphenated_words})

----------------------------------------------------------------------------
(* Properties of the result file of ProcessFile.run.                       *)

\* the output sentence has a token for every token of the input sentence:
\* a word without hyphenation symbol as it is, a hyphenated token as its
\* merged or its hyphenated form, in the case of the input or in lower case
IsResultOf(output_sentence, input_sentence) ==
    /\ Len(output_sentence) = Len(input_sentence)
    /\ \A j \in DOMAIN input_sentence :
           IF HasPlaceholder(input_sentence[j])
           THEN output_sentence[j] \in
                    {Replace(input_sentence[j], hyphen_symbol, <<>>),
                     Replace(input_sentence[j], hyphen_symbol, <<"-">>),
                     MergedForm(input_sentence[j]),
                     HyphenatedForm(input_sentence[j])}
           ELSE output_sentence[j] = input_sentence[j]

\* C30: a run of type 'base', 'base2' or 'logreg' has written one result
\* line for every input line it has read, with the input sentence and an
\* output sentence of the same number of tokens, the words without
\* hyphenation symbol unchanged and every hyphenated token in its merged or
\* its hyphenated form.
C30_OneResultLinePerLine ==
    (rf.model_type \in {"base", "base2", "logreg"}
     /\ rf.status \in {"running", "done"})
        => /\ Len(rf.written) = rf.line_counter
           /\ \A i \in DOMAIN rf.written :
                  /\ rf.written[i].input_sentence = rf.file[i][1]
                  /\ IsResultOf(rf.written[i].output_sentence,
                                rf.file[i][1])
====
